---- MODULE Spec2Model ----
(***************************************************************************)
(* Model of the ticos-client Python SDK (sdk/python/ticos_client):         *)
(* TicosClient.handle_message (storage block, transcript reassembly,       *)
(* memory counter, handler dispatch), the background threads it starts     *)
(* (session snapshot, summarization, memory append, memory push),          *)
(* SQLiteStorageService (initialization, messages, memories), and          *)
(* UnifiedServer's inbound WebSocket path with its message-type filter.    *)
(*                                                                         *)
(* Text (message content, deltas, transcripts) is a sequence of            *)
(* characters.  Message ids are the integers whose decimal strings the     *)
(* code stores; datetime is the wall-clock second.  Python None is a       *)
(* sentinel value of the same shape as the values it stands in for.        *)
(***************************************************************************)
EXTENDS Integers, Sequences, FiniteSets

VARIABLES
    now,               \* wall clock, seconds (time.time())
    storage,           \* TicosClient.storage: "none" or "on"
    messages,          \* rows of the messages table (a set, keyed by id)
    cache,             \* TicosClient._audio_transcript_cache
    last_message_id,   \* TicosClient._last_message_id
    message_counter,   \* TicosClient.message_counter
    memgen,            \* config model.enable_memory_generation == "client"
    background_tasks,  \* TicosClient._background_tasks (names of live threads)
    handler,           \* the five registered callbacks: "none", "ok" or "raise"
    last,              \* the last envelope delivered, its result and the calls made
    turn,              \* history: the run of deltas being reassembled
    turns,             \* history: the runs that ended (by item switch or response.done)
    conn,              \* the SQLiteStorageService instances whose conn is open
    schema,            \* the database file: "absent", "empty", "legacy" or "latest"
    db_version,        \* rows of the db_version table, oldest first
    memories,          \* rows of the memories table (a set, keyed by id)
    memory_seq,        \* sqlite_sequence of memories: the largest id AUTOINCREMENT issued
    reply,             \* the last store operation called and what it returned
    running,           \* TicosClient.running
    threads,           \* the live background threads, each at a position of its program
    session_config,    \* model.messages.nobody of the session_config file
    remote,            \* the connections the remote backend accepted, each the turns sent on it
    summary,           \* what summarize_conversation returned in the last step, if called
    caller,            \* the handle_message call that has not returned yet, if any
    counted,           \* history: increments of message_counter
    launched,          \* history: memory_generation threads started
    server,            \* TicosClient.server: 0 (None) or the UnifiedServer it refers to
    servers,           \* the UnifiedServer objects made, each with its thread
    starting,          \* the start() call in progress, if any, and what it returned
    health,            \* the health.status events the message handler was given
    stopping,          \* the stop() call in progress, if any
    issued,            \* history: the message ids issued, oldest first
    broadcast,         \* the messages sent to the connected WebSocket clients
    answer,            \* what the last send_message returned
    client,            \* com/ticos TicosClient: socket, running, is_reconnecting, _lock
    procs,             \* the threads of the socket client, each at a position
    transport,         \* whether the motion service accepts connections
    wire,              \* the bytes written to the socket and not yet read
    rx,                \* _receive_loop: the bytes of the frame read so far
    delivered,         \* the messages _receive_loop handed to the handler
    framed,            \* history: the messages send_message wrote
    agent_id,          \* config agent_id
    success,           \* what the last send_user_prompt_update returned, in a tuple
    updating,          \* the update_message call between its statements, if any
    committed          \* rows of the messages table as of the last commit

store_vars == << conn, schema, db_version, memories, memory_seq, reply >>

memory_vars ==
    << running, threads, session_config, remote, summary, caller, counted, launched >>

vars == << now, storage, messages, cache, last_message_id, message_counter,
           memgen, background_tasks, handler, last, turn, turns,
           conn, schema, db_version, memories, memory_seq, reply,
           running, threads, session_config, remote, summary, caller, counted, launched,
           server, servers, starting, health, stopping, issued, broadcast, answer,
           client, procs, transport, wire, rx, delivered, framed, agent_id, success,
           updating, committed >>

\* the state of what the step at hand does not involve
start_vars == << server, servers, starting, health >>
send_vars == << issued, broadcast, answer >>
socket_vars == << client, procs, transport >>
wire_vars == << wire, rx, delivered, framed >>
txn_vars == << updating, committed >>
rest_vars == << start_vars, stopping, send_vars, socket_vars, wire_vars, agent_id, txn_vars >>
ext_vars == << rest_vars, success >>

\* the variables of ticos_client.TicosClient and its store
base_vars == << now, storage, messages, cache, last_message_id, message_counter,
               memgen, background_tasks, handler, last, turn, turns,
               conn, schema, db_version, memories, memory_seq, reply,
               running, threads, session_config, remote, summary, caller, counted,
               launched >>

-----------------------------------------------------------------------------
(* Bounds of the model *)

MaxClock == 2          \* the wall clock runs from 1 to MaxClock
MaxId == 2             \* largest message id issued
MaxText == 2           \* longest accumulated transcript
MaxTasks == 1          \* live background threads
MaxMemories == 2       \* largest memory id issued
MaxPushes == 1         \* memory updates sent to the remote backend
MaxSecond == 5         \* the wall clock of the id generator runs from 1 to MaxSecond
MaxIssued == 4         \* message ids issued by one client
MaxFrames == 2         \* frames written to one connection
MaxSent == 2           \* messages broadcast
MaxConnections == 2    \* WebSocket clients connected to the server
MaxStarts == 2         \* calls of start()
MaxInFlight == 2       \* background threads registered when stop() is called
MaxThreads == 3        \* threads of the socket client, the caller's included

context_rounds == 3     \* TicosClient.context_rounds (config model.history_conversation_length)

-----------------------------------------------------------------------------
(* Values *)

NoItem == "None"                     \* an absent (or empty) item id
NoText == << >>

NoMessage ==
    [id |-> 0, role |-> "none", content |-> NoText, item_id |-> NoItem,
     user_id |-> "nobody", datetime |-> 0]

\* models.py: Message
Message(id, role, content, item_id, datetime) ==
    [id |-> id, role |-> role, content |-> content, item_id |-> item_id,
     user_id |-> "nobody", datetime |-> datetime]

EmptyCache == [item_id |-> NoItem, message |-> NoMessage, content |-> NoText]

HandlerNames == {"message", "motion", "emotion", "function_call", "conversation"}

\* Python truthiness of an Optional[str] item id and of a text
TruthyId(i) == i # NoItem
TruthyText(t) == t # NoText

-----------------------------------------------------------------------------
(* Envelopes: JSON objects received from the transport.  Every envelope    *)
(* has the same fields; a field the envelope does not carry is "ABSENT".   *)

Absent == "ABSENT"

Envelope(type, item_id, text, itype, role, audio, name, arguments) ==
    [type |-> type, item_id |-> item_id, text |-> text, itype |-> itype,
     role |-> role, audio |-> audio, name |-> name, arguments |-> arguments]

Plain(type) == Envelope(type, NoItem, NoText, Absent, Absent, FALSE, Absent, Absent)

\* {type: response.audio_transcript.delta, item_id, delta}
Delta(item_id, d) ==
    Envelope("response.audio_transcript.delta", item_id, d, Absent, Absent, FALSE, Absent, Absent)

\* {type: response.done}, possibly carrying an item id of its own
Done(item_id) ==
    Envelope("response.done", item_id, NoText, Absent, Absent, FALSE, Absent, Absent)

\* {type: conversation.item.created, item: {id, type, role, content: [...]}}
ItemCreated(id, itype, role, audio) ==
    Envelope("conversation.item.created", id, NoText, itype, role, audio, Absent, Absent)

\* {type: conversation.item.input_audio_transcription.completed, item_id, transcript}
Completed(item_id, t) ==
    Envelope("conversation.item.input_audio_transcription.completed", item_id, t,
             Absent, Absent, FALSE, Absent, Absent)

\* {type: response.output_item.done, item: {type, name, arguments}}
OutputItemDone(itype, name, arguments) ==
    Envelope("response.output_item.done", NoItem, NoText, itype, Absent, FALSE, name, arguments)

FunctionCall(name, arguments) == OutputItemDone("function_call", name, arguments)

\* Envelope types outside the allow-list, and an envelope with no type at all
NoType == Plain(Absent)
Unlisted == Plain("session.updated")

-----------------------------------------------------------------------------
(* JSON text of a function call's arguments, and what json.loads makes of  *)
(* it: an object is a set of <<key, value>> pairs.                         *)

ArgEmpty == "{}"
ArgWave == "{\"action\": \"wave\"}"
ArgBad == "{\"action\": "
ArgStrings == {ArgEmpty, ArgWave, ArgBad}

EmptyObject == {}

\* json.loads: [ok, value]; ok = FALSE is json.JSONDecodeError
json_loads(s) ==
    CASE s = ArgEmpty -> [ok |-> TRUE, value |-> EmptyObject]
      [] s = ArgWave  -> [ok |-> TRUE, value |-> {<<"action", "wave">>}]
      [] OTHER        -> [ok |-> FALSE, value |-> EmptyObject]

\* a bug: malformed argument text is handed on as it came
ParseKeepsRaw(arguments) ==
    LET text == IF arguments = Absent THEN ArgEmpty ELSE arguments
        r == json_loads(text)
    IN  IF r.ok THEN r.value ELSE {<<"raw", text>>}

\* ticos_client.py:625-632: item.get("arguments", "{}") parsed, {} when malformed
ParseArguments(arguments) ==
    LET text == IF arguments = Absent THEN ArgEmpty ELSE arguments
        r == json_loads(text)
    IN  IF r.ok THEN r.value ELSE EmptyObject

-----------------------------------------------------------------------------
(* SQLiteStorageService: the messages table.  A table state is a set of    *)
(* rows with pairwise distinct ids.                                        *)

Ids(rows) == {m.id : m \in rows}

\* a bug: INSERT OR IGNORE, a row that exists is kept
save_message_ignore(rows, m) ==
    IF m.id \in Ids(rows) THEN rows ELSE rows \cup {m}

\* storage.py:299-322: INSERT OR REPLACE by primary key
save_message(rows, m) == {r \in rows : r.id # m.id} \cup {m}

\* storage.py:456-478: SELECT ... WHERE item_id = ? (no ORDER BY) and fetchone():
\* any one of the matching rows, NoMessage when there is none
get_message_by_item_id(rows, item_id) ==
    LET hits == {r \in rows : r.item_id = item_id}
    IN  IF hits = {} THEN {NoMessage} ELSE hits

\* storage.py:371-375: drop one trailing sentence punctuation character
Punctuation == {".", ",", "?", "!"}
normalize_for_comparison(text) ==
    IF Len(text) > 0 /\ text[Len(text)] \in Punctuation
    THEN SubSeq(text, 1, Len(text) - 1)
    ELSE text

\* str.startswith
startswith(s, prefix) ==
    Len(prefix) <= Len(s) /\ SubSeq(s, 1, Len(prefix)) = prefix

\* storage.py:379-388: the row with the largest id below message_id
PreviousRow(rows, message_id) ==
    LET below == {r \in rows : r.id < message_id}
    IN  IF below = {} THEN NoMessage
        ELSE CHOOSE r \in below : \A q \in below : q.id <= r.id

\* a bug: only a current text that extends the previous one counts
IsIncrementalForward(prev, m) ==
    /\ prev # NoMessage
    /\ prev.role = "user"
    /\ startswith(normalize_for_comparison(m.content), normalize_for_comparison(prev.content))
    /\ normalize_for_comparison(m.content) # normalize_for_comparison(prev.content)

\* storage.py:390-409: is the previous row a redundant partial user transcript
IsIncremental(prev, m) ==
    /\ prev # NoMessage
    /\ prev.role = "user"
    /\ LET normalized_current == normalize_for_comparison(m.content)
           normalized_prev == normalize_for_comparison(prev.content)
       IN  /\ \/ startswith(normalized_current, normalized_prev)
              \/ startswith(normalized_prev, normalized_current)
           /\ normalized_current # normalized_prev

\* a bug: the UPDATE is never written
update_message_unwritten(rows, message_id, m) == [rows |-> rows, ret |-> FALSE]

\* storage.py:348-415: UPDATE by id, then for a user message delete the previous
\* row when it is an incremental version; the result is cursor.rowcount > 0 of
\* the last statement executed on the cursor (UPDATE: rows matched, SELECT: -1,
\* DELETE: rows deleted)
update_message(rows, message_id, m) ==
    LET updated == {IF r.id = message_id
                    THEN [m EXCEPT !.id = message_id]
                    ELSE r : r \in rows}
        matched == Cardinality({r \in rows : r.id = message_id})
        prev == PreviousRow(updated, message_id)
    IN  IF m.role = "user"
        THEN IF IsIncremental(prev, m)
             THEN [rows |-> updated \ {prev}, ret |-> TRUE]
             ELSE [rows |-> updated, ret |-> FALSE]
        ELSE [rows |-> updated, ret |-> matched > 0]

\* storage.py:324-346: the row with this id rebuilt as a Message, None without one
get_message(rows, message_id) ==
    LET hits == {r \in rows : r.id = message_id}
    IN  IF hits = {} THEN NoMessage
        ELSE LET row == CHOOSE r \in hits : TRUE
             IN  [id |-> row.id, role |-> row.role, content |-> row.content,
                  item_id |-> row.item_id, user_id |-> row.user_id,
                  datetime |-> row.datetime]

\* storage.py:417-427: [rows, ret], ret is cursor.rowcount > 0
delete_message(rows, message_id) ==
    [rows |-> {r \in rows : r.id # message_id},
     ret |-> \E r \in rows : r.id = message_id]

\* the orders in which SQLite may return a table: ORDER BY datetime ASC or DESC,
\* rows of equal datetime in any order
Orderings(rows) ==
    {p \in [1..Cardinality(rows) -> rows] : \A i, j \in DOMAIN p : i # j => p[i] # p[j]}

OrderedBy(p, desc) ==
    \A i, j \in DOMAIN p :
        i < j => IF desc THEN p[i].datetime >= p[j].datetime
                         ELSE p[i].datetime <= p[j].datetime

\* LIMIT ? OFFSET ?: a negative limit is no limit, a negative offset is 0
Page(p, offset, limit) ==
    LET first == IF offset < 0 THEN 1 ELSE offset + 1
        last_ == IF limit < 0 \/ first + limit - 1 > Len(p) THEN Len(p) ELSE first + limit - 1
    IN  SubSeq(p, first, last_)

\* a bug: the direction is ignored, the order is always descending
select_page_desc(rows, offset, limit, desc) ==
    {Page(p, offset, limit) : p \in {q \in Orderings(rows) : OrderedBy(q, TRUE)}}

\* storage.py:437-440 and 581-584: SELECT ... ORDER BY datetime {order} LIMIT ? OFFSET ?,
\* the lists the statement may return
select_page(rows, offset, limit, desc) ==
    {Page(p, offset, limit) : p \in {q \in Orderings(rows) : OrderedBy(q, desc)}}

\* storage.py:429-454
get_messages(rows, offset, limit, desc) == select_page(rows, offset, limit, desc)

\* models.py: Memory, and the dict get_memory returns; id is None before it is stored
NoMemory == [id |-> 0, type |-> "none", content |-> NoText, user_id |-> "nobody", datetime |-> 0]

Memory(type, content, datetime) ==
    [id |-> 0, type |-> type, content |-> content, user_id |-> "nobody", datetime |-> datetime]

\* storage.py:480-496 with AUTOINCREMENT: the new id is above every id ever issued
save_memory(rows, seq, m) ==
    [rows |-> rows \cup {[m EXCEPT !.id = seq + 1]}, seq |-> seq + 1]

\* storage.py:498-519
get_memory(rows, memory_id) ==
    LET hits == {r \in rows : r.id = memory_id}
    IN  IF hits = {} THEN NoMemory ELSE CHOOSE r \in hits : TRUE

\* storage.py:521-537: [rows, ret]
update_memory(rows, memory_id, m) ==
    [rows |-> {IF r.id = memory_id THEN [m EXCEPT !.id = memory_id] ELSE r : r \in rows},
     ret |-> \E r \in rows : r.id = memory_id]

\* storage.py:539-549: [rows, ret]
delete_memory(rows, memory_id) ==
    [rows |-> {r \in rows : r.id # memory_id},
     ret |-> \E r \in rows : r.id = memory_id]

\* storage.py:551-571: ORDER BY datetime DESC LIMIT 1, the rows it may return
get_latest_memory(rows) ==
    IF rows = {} THEN {NoMemory}
    ELSE {r \in rows : \A q \in rows : q.datetime <= r.datetime}

\* storage.py:573-597
get_memories(rows, offset, limit, desc) == select_page(rows, offset, limit, desc)

\* storage.py:102
CURRENT_DB_VERSION == 1

\* storage.py:175-177: the version of the newest db_version row, 0 without one
current_version == IF db_version = << >> THEN 0 ELSE db_version[Len(db_version)]

\* a bug: the columns are added without looking at the table first; ALTER TABLE
\* raises "duplicate column name" on a table that has the column
_migrate_database_unchecked(sch) ==
    CASE sch = "legacy" -> [schema |-> "latest", raised |-> FALSE]
      [] OTHER          -> [schema |-> sch, raised |-> TRUE]

\* storage.py:249-273: the migration from version 0 adds the user_id column to
\* messages and then to memories, each only if PRAGMA table_info does not list
\* it ("half": messages has the column, memories has not); on a file without the
\* tables ALTER TABLE raises
_migrate_database(sch) ==
    CASE sch = "legacy" -> [schema |-> "latest", raised |-> FALSE]
      [] sch = "half"   -> [schema |-> "latest", raised |-> FALSE]
      [] sch = "latest" -> [schema |-> "latest", raised |-> FALSE]
      [] OTHER          -> [schema |-> sch, raised |-> TRUE]

\* storage.py:256-270: what the file holds after each statement of the migration
\* that changes it, in the order the statements run (each ALTER TABLE is durable
\* when it returns: sqlite3 opens no transaction for it)
MigrationPoints(sch) ==
    CASE sch = "legacy" -> {"half", "latest"}
      [] sch = "half"   -> {"latest"}
      [] OTHER          -> {}

\* a bug: the version row is written on every run
InitializeAlwaysStamps ==
    IF schema = "absent"
    THEN [schema |-> "latest", db_version |-> Append(db_version, CURRENT_DB_VERSION),
          migrated |-> FALSE, raised |-> FALSE]
    ELSE LET mig == _migrate_database(schema)
         IN  IF mig.raised
             THEN [schema |-> schema, db_version |-> db_version,
                   migrated |-> TRUE, raised |-> TRUE]
             ELSE [schema |-> mig.schema,
                   db_version |-> Append(db_version, CURRENT_DB_VERSION),
                   migrated |-> current_version < CURRENT_DB_VERSION, raised |-> FALSE]

\* storage.py:132-212: what initialize does to the database file when it connects:
\* a new file gets the latest schema and a version row, an older one is migrated and
\* gets a version row, a current one is left alone
Initialize ==
    IF schema = "absent"
    THEN [schema |-> "latest", db_version |-> Append(db_version, CURRENT_DB_VERSION),
          migrated |-> FALSE, raised |-> FALSE]
    ELSE IF current_version < CURRENT_DB_VERSION
         THEN LET mig == _migrate_database(schema)
              IN  IF mig.raised
                  THEN [schema |-> schema, db_version |-> db_version,
                        migrated |-> TRUE, raised |-> TRUE]
                  ELSE [schema |-> mig.schema,
                        db_version |-> Append(db_version, CURRENT_DB_VERSION),
                        migrated |-> TRUE, raised |-> FALSE]
         ELSE [schema |-> schema, db_version |-> db_version,
               migrated |-> FALSE, raised |-> FALSE]

\* the SQLiteStorageService instances on the one database file; the client holds
\* the first (TicosClient.storage)
Instances == {1, 2}
ClientStore == 1

\* a bug: the connection is handed out without the test
_get_connection_unchecked(s) == TRUE

\* storage.py:290-297: FALSE is the RuntimeError "not initialized or has been closed"
_get_connection(s) == s \in conn

-----------------------------------------------------------------------------
(* UnifiedServer: the inbound message filter *)

\* server.py:230-241
allowed_types ==
    { "conversation.item.created",
      "response.created",
      "conversation.item.input_audio_transcription.completed",
      "response.output_item.done",
      "response.audio_transcript.delta",
      "response.done",
      "response.audio.delta",
      "response.video.done",
      "conversation.created",
      "health.status" }

\* a bug: every envelope that has a type passes
AcceptsAnyType(e) == e.type # Absent

\* server.py:215-246
_should_process_message(e) ==
    IF e.type = Absent THEN FALSE ELSE e.type \in allowed_types

-----------------------------------------------------------------------------
(* TicosClient: the pieces of handle_message *)

\* a bug: the id is the wall-clock second, whatever was issued before
ClockOnly(last_id, t) == t

\* ticos_client.py:86-101
_generate_message_id(last_id, t) ==
    IF t <= last_id THEN last_id + 1 ELSE t

\* a bug: the draft is saved and the slot is not reset
SaveWithoutReset(rows, c) ==
    IF c.message # NoMessage /\ TruthyText(c.content)
    THEN [rows |-> save_message(rows, [c.message EXCEPT !.content = c.content]),
          cache |-> c]
    ELSE [rows |-> rows, cache |-> c]

\* ticos_client.py:103-127: [rows, cache] after the call
_save_cached_audio_transcript(rows, c) ==
    IF c.message # NoMessage /\ TruthyText(c.content)
    THEN [rows |-> save_message(rows, [c.message EXCEPT !.content = c.content]),
          cache |-> EmptyCache]
    ELSE [rows |-> rows, cache |-> c]

\* ticos_client.py:526-529: response.done finds a draft to flush
HasDraft(c) == TruthyId(c.item_id) /\ c.message # NoMessage

\* a bug: a draft of another item is never flushed
NeverSwitches(c, item_id) == FALSE

\* ticos_client.py:551-554: the slot holds another item
SwitchesItem(c, item_id) == TruthyId(c.item_id) /\ c.item_id # item_id

\* ticos_client.py:560-563: this is the first delta of its item
StartsItem(c, item_id) == ~TruthyId(c.item_id) \/ c.item_id # item_id

\* a bug: the delta is put in front of the accumulated text
PrependDelta(content, delta) == delta \o content

\* ticos_client.py:573-576: content = delta on the first delta, content += delta after
FirstDelta(delta) == delta
AppendDelta(content, delta) == content \o delta

\* ticos_client.py:759-791: the thread is started and appended to the list
_run_in_background(tasks, task_name) == Append(tasks, task_name)

\* a bug: the counter is not reset when the thread is started
MemoryCheckNoReset(text_message, type, counter, tasks) ==
    IF text_message /\ type # "conversation.item.created" /\ memgen
    THEN IF (counter + 1) * 2 >= context_rounds
         THEN [counter |-> counter + 1,
               tasks |-> _run_in_background(tasks, "memory_generation")]
         ELSE [counter |-> counter + 1, tasks |-> tasks]
    ELSE [counter |-> counter, tasks |-> tasks]

\* ticos_client.py:591-606: [counter, tasks] after the memory check
MemoryCheck(text_message, type, counter, tasks) ==
    IF text_message /\ type # "conversation.item.created" /\ memgen
    THEN IF (counter + 1) * 2 >= context_rounds
         THEN [counter |-> 0, tasks |-> _run_in_background(tasks, "memory_generation")]
         ELSE [counter |-> counter + 1, tasks |-> tasks]
    ELSE [counter |-> counter, tasks |-> tasks]

Call(h, args) == [h |-> h, args |-> args]

Registered(h) == handler[h] # "none"

\* a call of the conversation handler, when one is registered
ConversationCall(item_id, role, text) ==
    IF Registered("conversation")
    THEN << Call("conversation", <<item_id, role, text>>) >>
    ELSE << >>

\* what the storage block leaves: the store, the slot, the id and memory counters,
\* the live tasks, the conversation-handler calls it made, and whether an exception
\* ended it early (ticos_client.py:607-610)
Block(rows, c, last_id, counter, tasks, calls, aborted) ==
    [messages |-> rows, cache |-> c, last_message_id |-> last_id,
     message_counter |-> counter, background_tasks |-> tasks,
     calls |-> calls, aborted |-> aborted]

Untouched == Block(messages, cache, last_message_id, message_counter, background_tasks,
                   << >>, FALSE)

\* ticos_client.py:456-489
OnItemCreated(e) ==
    IF e.itype = "message" /\ e.role = "user" /\ e.audio
    THEN LET id == _generate_message_id(last_message_id, now)
             msg == Message(id, "user", NoText, e.item_id, now)
         IN  Block(save_message(messages, msg), cache, id, message_counter,
                   background_tasks, ConversationCall(e.item_id, "user", NoText),
                   handler["conversation"] = "raise")
    ELSE Untouched

\* ticos_client.py:491-521; found is the row get_message_by_item_id returned
OnTranscriptionCompleted(e, found) ==
    IF TruthyId(e.item_id) /\ found # NoMessage
    THEN LET msg == [found EXCEPT !.content = e.text]
         IN  Block(update_message(messages, msg.id, msg).rows, cache, last_message_id,
                   message_counter, background_tasks,
                   ConversationCall(e.item_id, "user", e.text),
                   handler["conversation"] = "raise")
    ELSE Untouched

\* ticos_client.py:523-531
OnResponseDone(e) ==
    IF HasDraft(cache)
    THEN LET saved == _save_cached_audio_transcript(messages, cache)
             mem == MemoryCheck(TRUE, e.type, message_counter, background_tasks)
         IN  Block(saved.rows, saved.cache, last_message_id, mem.counter, mem.tasks,
                   << >>, FALSE)
    ELSE Untouched

\* ticos_client.py:533-576
OnTranscriptDelta(e) ==
    IF TruthyText(e.text) /\ TruthyId(e.item_id)
    THEN IF handler["conversation"] = "raise"
         THEN Block(messages, cache, last_message_id, message_counter, background_tasks,
                    ConversationCall(e.item_id, "assistant", e.text), TRUE)
         ELSE LET switch == SwitchesItem(cache, e.item_id)
                  saved == IF switch
                           THEN _save_cached_audio_transcript(messages, cache)
                           ELSE [rows |-> messages, cache |-> cache]
                  starts == StartsItem(saved.cache, e.item_id)
                  id == IF starts
                        THEN _generate_message_id(last_message_id, now)
                        ELSE last_message_id
                  slot == IF starts
                          THEN [item_id |-> e.item_id,
                                message |-> Message(id, "assistant", NoText, e.item_id, now),
                                content |-> FirstDelta(e.text)]
                          ELSE [saved.cache EXCEPT
                                    !.content = AppendDelta(saved.cache.content, e.text)]
                  mem == MemoryCheck(switch, e.type, message_counter, background_tasks)
              IN  Block(saved.rows, slot, id, mem.counter, mem.tasks,
                        ConversationCall(e.item_id, "assistant", e.text), FALSE)
    ELSE Untouched

\* ticos_client.py:578-586
OnConversationCreated(e) ==
    Block(messages, cache, last_message_id, message_counter,
          _run_in_background(background_tasks, "initial_memory_update"), << >>, FALSE)

\* ticos_client.py:449-610: the storage block, skipped when no storage is enabled
StorageBlock(e, found) ==
    IF storage = "none" THEN Untouched
    ELSE CASE e.type = "conversation.item.created" -> OnItemCreated(e)
           [] e.type = "conversation.item.input_audio_transcription.completed" ->
                  OnTranscriptionCompleted(e, found)
           [] e.type = "response.done" -> OnResponseDone(e)
           [] e.type = "response.audio_transcript.delta" -> OnTranscriptDelta(e)
           [] e.type = "conversation.created" -> OnConversationCreated(e)
           [] OTHER -> Untouched

\* a bug: the combined name is missing from the emotion handler's names
EmotionOnly == {"emotion"}

\* a bug: the motion handler serves the emotion name too
MotionToo == {"motion", "emotion", "motion_and_emotion"}

\* ticos_client.py:636-637 and 644-645: the names each specific handler serves
MotionNames == {"motion", "motion_and_emotion"}

EmotionNames == {"emotion", "motion_and_emotion"}

\* ticos_client.py:636-650: the specific handlers an envelope's name selects
SpecificCalls(function_name, args) ==
    (IF function_name \in MotionNames /\ Registered("motion")
     THEN << Call("motion", <<args>>) >> ELSE << >>)
    \o
    (IF function_name \in EmotionNames /\ Registered("emotion")
     THEN << Call("emotion", <<args>>) >> ELSE << >>)

\* a bug: the test of handlers_called is inverted
GenericInverted(handlers_called, function_name, args) ==
    IF handlers_called /\ Registered("function_call")
    THEN << Call("function_call", <<function_name, args>>) >>
    ELSE << >>

\* ticos_client.py:652-659: the generic handler takes what no specific handler took
GenericCalls(handlers_called, function_name, args) ==
    IF ~handlers_called /\ Registered("function_call")
    THEN << Call("function_call", <<function_name, args>>) >>
    ELSE << >>

\* ticos_client.py:620-662: the function-call part of the dispatch
FunctionCalls(e) ==
    IF e.type = "response.output_item.done" /\ e.itype = "function_call"
    THEN LET function_name == IF e.name = Absent THEN "" ELSE e.name
             args == ParseArguments(e.arguments)
             specific == SpecificCalls(function_name, args)
         IN  specific \o GenericCalls(specific # << >>, function_name, args)
    ELSE << >>

\* ticos_client.py:612-662: the handlers the dispatch calls, in order, when each
\* returns normally
Planned(e) ==
    (IF Registered("message") THEN << Call("message", <<e>>) >> ELSE << >>)
    \o FunctionCalls(e)

\* the position of the first planned call whose handler raises, 0 when none does
FirstRaise(calls) ==
    LET bad == {i \in 1..Len(calls) : handler[calls[i].h] = "raise"}
    IN  IF bad = {} THEN 0 ELSE CHOOSE i \in bad : \A j \in bad : i <= j

\* a bug: the except clause reports what was called before the exception
ReturnedDespiteRaise(calls, raised) == calls # << >>

\* ticos_client.py:664-668: overall_handlers_called, or False from the except clause
Returned(calls, raised) ==
    IF raised THEN FALSE ELSE calls # << >>

\* ticos_client.py:612-668: the calls made, whether one raised, and the result
Dispatch(e) ==
    LET planned == Planned(e)
        k == FirstRaise(planned)
        made == IF k = 0 THEN planned ELSE SubSeq(planned, 1, k)
    IN  [calls |-> made, raised |-> k # 0, ret |-> Returned(made, k # 0)]

-----------------------------------------------------------------------------
(* History of the transcript deltas handled: what the reassembler is meant *)
(* to have built.  A run is the deltas of one item handled with no delta   *)
(* of another item and no response.done in between.                        *)

NoTurn == [item_id |-> NoItem, text |-> NoText]

\* a delta the storage block handled to its end
HandledDelta(e) ==
    /\ storage = "on"
    /\ e.type = "response.audio_transcript.delta"
    /\ TruthyText(e.text) /\ TruthyId(e.item_id)
    /\ handler["conversation"] # "raise"

Ended(t) == IF t = NoTurn THEN << >> ELSE << t >>

TurnAfter(e) ==
    IF HandledDelta(e)
    THEN IF turn.item_id = e.item_id
         THEN [turn EXCEPT !.text = turn.text \o e.text]
         ELSE [item_id |-> e.item_id, text |-> e.text]
    ELSE IF storage = "on" /\ e.type = "response.done" THEN NoTurn ELSE turn

TurnsAfter(e) ==
    IF HandledDelta(e)
    THEN IF turn.item_id = e.item_id THEN turns ELSE turns \o Ended(turn)
    ELSE IF storage = "on" /\ e.type = "response.done" THEN turns \o Ended(turn) ELSE turns

-----------------------------------------------------------------------------
(* Operations *)

NoEnvelope == Plain("NONE")
Idle == [via |-> "none", env |-> NoEnvelope, ret |-> FALSE, calls |-> << >>,
         raised |-> FALSE, aborted |-> FALSE]

\* the envelope stays within the bounds of the model
WithinBounds(b) ==
    /\ b.last_message_id <= MaxId
    /\ Len(b.cache.content) <= MaxText
    /\ Len(b.background_tasks) <= MaxTasks

\* send_user_prompt_update was not called
NotSent == << >>

\* summarize_conversation returned None (http_util.py:104-110, 197-216)
NoSummary == << "None" >>

\* summarize_conversation was not called in the last step
NotAsked == << "not called" >>

\* ticos_client.py:783-785: a thread started for task_name, at the first step of
\* its target (_generate_memory_and_update_session or _send_memory_update);
\* returned tells whether the handle_message call that started it has returned
Thread(task_name, returned) ==
    [name |-> task_name,
     pc |-> IF task_name = "memory_generation" THEN "snapshot" ELSE "push",
     returned |-> returned]

\* the tasks the storage block started, and what it did to the counter
Started(b) ==
    SubSeq(b.background_tasks, Len(background_tasks) + 1, Len(b.background_tasks))
Launches(b) == Len(SelectSeq(Started(b), LAMBDA n : n = "memory_generation"))
Increments(b) ==
    IF b.message_counter # message_counter \/ Launches(b) > 0 THEN 1 ELSE 0

\* ticos_client.py:448-610: what the storage block b leaves behind
Stored(b, returned) ==
    /\ messages' = IF _get_connection(ClientStore) THEN b.messages ELSE messages
    /\ cache' = b.cache
    /\ last_message_id' = b.last_message_id
    /\ message_counter' = b.message_counter
    /\ background_tasks' = b.background_tasks
    /\ threads' = threads \o [i \in 1..Len(Started(b)) |-> Thread(Started(b)[i], returned)]
    /\ counted' = counted + Increments(b)
    /\ launched' = launched + Launches(b)

\* no handle_message call is in progress
NoCall == [env |-> NoEnvelope, calls |-> << >>, aborted |-> FALSE]

\* ticos_client.py:434-668 TicosClient.handle_message, reached through via
Handle(e, via) ==
    \E found \in (IF _get_connection(ClientStore)
                  THEN get_message_by_item_id(messages, e.item_id)
                  ELSE {NoMessage}) :
        LET b == StorageBlock(e, found)
            d == Dispatch(e)
        IN  /\ caller = NoCall
            /\ WithinBounds(b)
            /\ Stored(b, TRUE)
            /\ last' = [via |-> via, env |-> e, ret |-> d.ret, calls |-> b.calls \o d.calls,
                        raised |-> d.raised, aborted |-> b.aborted]
            /\ turn' = TurnAfter(e)
            /\ turns' = TurnsAfter(e)
            /\ UNCHANGED << now, storage, memgen, handler >>
            /\ UNCHANGED store_vars
            /\ UNCHANGED ext_vars
            /\ summary' = NotAsked
            /\ UNCHANGED << running, session_config, remote, caller >>

\* TicosClient.handle_message called by the application or by UnifiedServer.run
handle_message(e) == Handle(e, "direct")

\* server.py:248-277 UnifiedServer._handle_websocket_message
_handle_websocket_message(e) ==
    IF _should_process_message(e)
    THEN Handle(e, "websocket")
    ELSE /\ last' = [Idle EXCEPT !.via = "websocket", !.env = e]
         /\ UNCHANGED << now, storage, messages, cache, last_message_id, message_counter,
                         memgen, background_tasks, handler, turn, turns >>
         /\ UNCHANGED store_vars
         /\ UNCHANGED ext_vars
         /\ UNCHANGED memory_vars

Reverse(q) == [i \in 1..Len(q) |-> q[Len(q) + 1 - i]]

\* a bug: the list is written as collected
KeepTrailing(l) == l

\* ticos_client.py:836-838: entries are dropped until the last is an assistant's
RECURSIVE DropTrailing(_)
DropTrailing(l) ==
    IF l # << >> /\ l[Len(l)].role # "assistant"
    THEN DropTrailing(SubSeq(l, 1, Len(l) - 1))
    ELSE l

\* ticos_client.py:807-836: the list made of page, the messages get_messages
\* returned newest first: oldest first, those with content
session_messages(page) ==
    LET entries == [i \in 1..Len(page) |->
                        [role |-> Reverse(page)[i].role, content |-> Reverse(page)[i].content]]
    IN  DropTrailing(SelectSeq(entries, LAMBDA x : x.content # NoText))

\* the health.status envelope enable_local_storage hands to the message handler
DatabaseError == Plain("health.status")

\* ticos_client.py:129-162 TicosClient.enable_local_storage with a new
\* SQLiteStorageService: the store is initialized and kept; when initialize raises
\* the message handler is told and the client stays without a store
enable_local_storage ==
    /\ storage = "none"
    /\ ClientStore \notin conn
    /\ LET r == Initialize
       IN  /\ schema' = r.schema
           /\ db_version' = r.db_version
           /\ conn' = IF r.raised THEN conn ELSE conn \cup {ClientStore}
           /\ storage' = IF r.raised THEN "none" ELSE "on"
           /\ last' = IF r.raised /\ Registered("message")
                      THEN [Idle EXCEPT !.calls = << Call("message", << DatabaseError >>) >>]
                      ELSE Idle
           /\ \E page \in get_messages(messages, 0, context_rounds, TRUE) :
                  session_config' = IF r.raised \/ ~memgen THEN session_config
                                    ELSE session_messages(page)
    /\ UNCHANGED << now, messages, cache, last_message_id, message_counter, memgen,
                    background_tasks, handler, turn, turns, memories, memory_seq, reply >>
    /\ UNCHANGED << running, threads, remote, summary, caller, counted, launched >>
    /\ UNCHANGED ext_vars

\* ticos_client.py:164-214 set_message_handler, set_motion_handler, set_emotion_handler,
\* set_function_call_handler, set_conversation_handler; mode is how the callback
\* behaves when called
set_handler(h, mode) ==
    /\ handler' = [handler EXCEPT ![h] = mode]
    /\ last' = Idle
    /\ UNCHANGED << now, storage, messages, cache, last_message_id, message_counter,
                    memgen, background_tasks, turn, turns >>
    /\ UNCHANGED store_vars
    /\ UNCHANGED ext_vars
    /\ UNCHANGED memory_vars

\* a second passes on the wall clock
Tick ==
    /\ now < MaxClock
    /\ now' = now + 1
    /\ last' = Idle
    /\ UNCHANGED << storage, messages, cache, last_message_id, message_counter, memgen,
                    background_tasks, handler, turn, turns >>
    /\ UNCHANGED store_vars
    /\ UNCHANGED ext_vars
    /\ UNCHANGED memory_vars

\* a sequence without its i-th element
Without(q, i) == SubSeq(q, 1, i - 1) \o SubSeq(q, i + 1, Len(q))

\* ticos_client.py:768-781 task_wrapper: a background thread whose target has
\* returned ends and leaves the list
TaskEnds ==
    \E i \in 1..Len(background_tasks) :
        /\ threads[i].pc = "done"
        /\ background_tasks' = Without(background_tasks, i)
        /\ threads' = Without(threads, i)
        /\ last' = Idle
        /\ UNCHANGED << now, storage, messages, cache, last_message_id, message_counter,
                        memgen, handler, turn, turns >>
        /\ UNCHANGED store_vars
        /\ UNCHANGED ext_vars
        /\ summary' = NotAsked
        /\ UNCHANGED << running, session_config, remote, caller, counted, launched >>

-----------------------------------------------------------------------------
(* The background threads.  Thread i runs the target handle_message gave it,  *)
(* one step at a time, beside the thread that calls handle_message.           *)

\* ticos_client.py:793-843, 862-903: the lists update_session_config_messages may
\* leave in the session_config file
Snapshots ==
    IF storage = "none" THEN {session_config}
    ELSE {session_messages(page) :
              page \in (IF _get_connection(ClientStore)
                        THEN get_messages(messages, 0, context_rounds, TRUE)
                        ELSE {<< >>})}

\* ticos_client.py:793-843 TicosClient.update_session_config_messages called by
\* the application: the snapshot is rewritten from the store
UpdateSessionConfigMessages ==
    /\ \E snapshot \in Snapshots : session_config' = snapshot
    /\ last' = Idle
    /\ summary' = NotAsked
    /\ UNCHANGED << now, storage, messages, cache, last_message_id, message_counter,
                    memgen, background_tasks, handler, turn, turns >>
    /\ UNCHANGED store_vars
    /\ UNCHANGED << running, threads, remote, caller, counted, launched >>
    /\ UNCHANGED ext_vars

\* what thread steps leave alone
thread_frame ==
    << now, storage, messages, cache, last_message_id, message_counter, memgen,
       background_tasks, handler, turn, turns, conn, schema, db_version, reply,
       running, caller, counted, launched >>

\* ticos_client.py:710-717: the thread rewrites the session snapshot
update_session_config_messages(i) ==
    /\ threads[i].pc = "snapshot"
    /\ \E snapshot \in Snapshots : session_config' = snapshot
    /\ threads' = [threads EXCEPT ![i].pc = "generate"]
    /\ last' = Idle
    /\ UNCHANGED thread_frame
    /\ UNCHANGED ext_vars
    /\ summary' = NotAsked
    /\ UNCHANGED << memories, memory_seq, remote >>

\* ticos_client.py:678-692: generate_memory reads the latest messages and the
\* latest memory and calls the summarizer; without a store it returns False
generate_memory(i) ==
    /\ threads[i].pc = "generate"
    /\ threads' = [threads EXCEPT ![i].pc = IF storage = "none" THEN "done"
                                                                ELSE "summarizing"]
    /\ last' = Idle
    /\ UNCHANGED thread_frame
    /\ UNCHANGED ext_vars
    /\ summary' = NotAsked
    /\ UNCHANGED << memories, memory_seq, remote, session_config >>

\* what summarize_conversation may return: None on a network error, a status
\* other than 200 or a malformed body; the joined summary of a 200 response
Summaries == {NoSummary, NoText, <<"s">>}

\* a bug: a summary is saved whatever the summarizer returned
AlwaysTruthy(out) == TRUE

\* ticos_client.py:694 `if memory_content`
Truthy(out) == out # NoSummary /\ out # NoText

\* a bug: generate_memory saves without looking at running
SavesWhenStopped(out) == Truthy(out)

\* ticos_client.py:694-702: the memory is saved when there is text and the client runs
Saves(out) == Truthy(out) /\ running

\* http_util.py:181-216 and ticos_client.py:694-708: the summarizer answers out and
\* generate_memory ends; _generate_memory_and_update_session goes on to
\* _send_memory_update when generate_memory returned True
summarize_conversation(i, out) ==
    /\ threads[i].pc = "summarizing"
    /\ Saves(out) => memory_seq < MaxMemories
    /\ LET written == Saves(out) /\ _get_connection(ClientStore)
           r == IF written
                THEN save_memory(memories, memory_seq, Memory("long_term", out, now))
                ELSE [rows |-> memories, seq |-> memory_seq]
       IN  /\ memories' = r.rows
           /\ memory_seq' = r.seq
           /\ threads' = [threads EXCEPT ![i].pc = IF Truthy(out) THEN "push" ELSE "done"]
    /\ summary' = out
    /\ last' = Idle
    /\ UNCHANGED thread_frame
    /\ UNCHANGED ext_vars
    /\ UNCHANGED << remote, session_config >>

\* websocket_client.py:209-224 and 232-247: the two conversation.item.create events
UserTurn(memory_content) ==
    [previous_item_id |-> "initial_user_prompt", role |-> "user", text |-> memory_content]
AssistantTurn ==
    [previous_item_id |-> "initial_assistant_prompt", role |-> "assistant",
     text |-> <<"O", "K">>]

\* a bug: the acknowledgement goes first
AckFirst(memory_content) == << AssistantTurn, UserTurn(memory_content) >>

\* websocket_client.py:227 and 250: the user turn is sent, then the acknowledgement
BothTurns(memory_content) == << UserTurn(memory_content), AssistantTurn >>

\* websocket_client.py:187-257 send_user_prompt_update on a connection whose first
\* sent calls (send, send, close) return and whose next one raises: the turns that
\* went out and the result
send_user_prompt_update(memory_content, sent) ==
    [turns |-> SubSeq(BothTurns(memory_content), 1, IF sent < 2 THEN sent ELSE 2),
     ret |-> sent = 3]

\* ticos_client.py:726-757 _send_memory_update: with memory generation on the
\* client and an agent id, the latest memory, if there is one with text, is sent
\* to the backend
_send_memory_update(i, sent) ==
    /\ threads[i].pc = "push"
    /\ \E latest \in (IF storage # "none" /\ _get_connection(ClientStore)
                       THEN get_latest_memory(memories) ELSE {NoMemory}) :
           IF memgen /\ agent_id # NoText /\ latest.content # NoText
           THEN LET r == send_user_prompt_update(latest.content, sent)
                IN  /\ r.turns # << >> => Len(remote) < MaxPushes
                    /\ remote' = IF r.turns = << >> THEN remote ELSE Append(remote, r.turns)
                    /\ success' = << r.ret >>
           ELSE /\ remote' = remote
                /\ success' = NotSent
    /\ threads' = [threads EXCEPT ![i].pc = "done"]
    /\ last' = Idle
    /\ UNCHANGED thread_frame
    /\ UNCHANGED rest_vars
    /\ summary' = NotAsked
    /\ UNCHANGED << memories, memory_seq, session_config >>

\* ticos_client.py:266-271: start() has seen the server up
start ==
    /\ ~running
    /\ running' = TRUE
    /\ last' = Idle
    /\ UNCHANGED << now, storage, messages, cache, last_message_id, message_counter,
                    memgen, background_tasks, handler, turn, turns >>
    /\ UNCHANGED store_vars
    /\ UNCHANGED ext_vars
    /\ summary' = NotAsked
    /\ UNCHANGED << threads, session_config, remote, caller, counted, launched >>

\* a bug: handle_message joins the threads it started before it returns
ReturnsAfterJoin == \A i \in 1..Len(threads) : threads[i].pc = "done"

\* ticos_client.py:612-668: nothing in handle_message waits for a thread
MayReturn == TRUE

\* ticos_client.py:434-610: handle_message is called with e and runs its storage
\* block, which may start a thread
handle_message_enters(e) ==
    \E found \in (IF _get_connection(ClientStore)
                  THEN get_message_by_item_id(messages, e.item_id)
                  ELSE {NoMessage}) :
        LET b == StorageBlock(e, found)
        IN  /\ caller = NoCall
            /\ WithinBounds(b)
            /\ Stored(b, FALSE)
            /\ caller' = [env |-> e, calls |-> b.calls, aborted |-> b.aborted]
            /\ last' = Idle
            /\ turn' = TurnAfter(e)
            /\ turns' = TurnsAfter(e)
            /\ UNCHANGED << now, storage, memgen, handler >>
            /\ UNCHANGED store_vars
            /\ UNCHANGED ext_vars
            /\ summary' = NotAsked
            /\ UNCHANGED << running, session_config, remote >>

\* ticos_client.py:612-668: the call in progress dispatches to the handlers and
\* returns
handle_message_returns ==
    /\ caller # NoCall
    /\ MayReturn
    /\ LET d == Dispatch(caller.env)
       IN  last' = [via |-> "direct", env |-> caller.env, ret |-> d.ret,
                    calls |-> caller.calls \o d.calls, raised |-> d.raised,
                    aborted |-> caller.aborted]
    /\ caller' = NoCall
    /\ threads' = [i \in 1..Len(threads) |-> [threads[i] EXCEPT !.returned = TRUE]]
    /\ UNCHANGED << now, storage, messages, cache, last_message_id, message_counter,
                    memgen, background_tasks, handler, turn, turns >>
    /\ UNCHANGED store_vars
    /\ UNCHANGED ext_vars
    /\ summary' = NotAsked
    /\ UNCHANGED << running, session_config, remote, counted, launched >>

-----------------------------------------------------------------------------
(* Operations of SQLiteStorageService, called on instance s.  Each answers   *)
(* with its falsy result when _get_connection raises (the except clause).    *)

Reply(op, s, arg, ret) == [op |-> op, s |-> s, arg |-> arg, ret |-> ret, raised |-> FALSE]
NoReply == Reply("none", 0, [none |-> TRUE], FALSE)

client_vars == << now, storage, cache, last_message_id, message_counter, memgen,
                 background_tasks, handler, last, turn, turns,
                 running, threads, session_config, remote, summary, caller, counted,
                 launched >>

\* storage.py:126-212 SQLiteStorageService.initialize
initialize(s) ==
    /\ IF s \in conn
       THEN /\ reply' = Reply("initialize", s, [migrated |-> FALSE, found |-> schema], TRUE)
            /\ UNCHANGED << conn, schema, db_version >>
       ELSE LET r == Initialize
            IN  /\ schema' = r.schema
                /\ db_version' = r.db_version
                /\ conn' = IF r.raised THEN conn ELSE conn \cup {s}
                /\ reply' = [Reply("initialize", s,
                                   [migrated |-> r.migrated, found |-> schema], ~r.raised)
                                EXCEPT !.raised = r.raised]
    /\ UNCHANGED << messages, memories, memory_seq >>
    /\ UNCHANGED client_vars
    /\ UNCHANGED ext_vars

\* storage.py:193-195, 249-273: the process running initialize is stopped inside
\* _migrate_database, after the statement that left the file as `point`; the
\* version row (lines 197-204) is not written, and the instance never connects
initialize_interrupted(s, point) ==
    /\ s \notin conn
    /\ schema # "absent"
    /\ current_version < CURRENT_DB_VERSION
    /\ point \in MigrationPoints(schema)
    /\ schema' = point
    /\ reply' = Reply("interrupted", s, [found |-> schema], FALSE)
    /\ UNCHANGED << conn, db_version, messages, memories, memory_seq >>
    /\ UNCHANGED client_vars
    /\ UNCHANGED ext_vars

\* storage.py:599-607 SQLiteStorageService.close
close(s) ==
    /\ conn' = conn \ {s}
    /\ reply' = Reply("close", s, [was_open |-> s \in conn], TRUE)
    /\ UNCHANGED << messages, schema, db_version, memories, memory_seq >>
    /\ UNCHANGED client_vars
    /\ UNCHANGED ext_vars

\* storage.py:299-322 SQLiteStorageService.save_message
SaveMessage(s, m) ==
    /\ messages' = IF _get_connection(s) THEN save_message(messages, m) ELSE messages
    /\ reply' = Reply("save_message", s, [message |-> m], _get_connection(s))
    /\ UNCHANGED << conn, schema, db_version, memories, memory_seq >>
    /\ UNCHANGED client_vars
    /\ UNCHANGED ext_vars

\* storage.py:324-346 SQLiteStorageService.get_message
GetMessage(s, message_id) ==
    /\ reply' = Reply("get_message", s, [message_id |-> message_id],
                      IF _get_connection(s) THEN get_message(messages, message_id)
                                            ELSE NoMessage)
    /\ UNCHANGED << messages, conn, schema, db_version, memories, memory_seq >>
    /\ UNCHANGED client_vars
    /\ UNCHANGED ext_vars

\* storage.py:348-415 SQLiteStorageService.update_message
UpdateMessage(s, message_id, m) ==
    /\ LET r == IF _get_connection(s) THEN update_message(messages, message_id, m)
                                      ELSE [rows |-> messages, ret |-> FALSE]
       IN  /\ messages' = r.rows
           /\ reply' = Reply("update_message", s,
                             [message_id |-> message_id, message |-> m], r.ret)
    /\ UNCHANGED << conn, schema, db_version, memories, memory_seq >>
    /\ UNCHANGED client_vars
    /\ UNCHANGED ext_vars

\* storage.py:417-427 SQLiteStorageService.delete_message
DeleteMessage(s, message_id) ==
    /\ LET r == IF _get_connection(s) THEN delete_message(messages, message_id)
                                      ELSE [rows |-> messages, ret |-> FALSE]
       IN  /\ messages' = r.rows
           /\ reply' = Reply("delete_message", s, [message_id |-> message_id], r.ret)
    /\ UNCHANGED << conn, schema, db_version, memories, memory_seq >>
    /\ UNCHANGED client_vars
    /\ UNCHANGED ext_vars

\* storage.py:429-454 SQLiteStorageService.get_messages
GetMessages(s, offset, limit, desc) ==
    /\ \E page \in (IF _get_connection(s) THEN get_messages(messages, offset, limit, desc)
                                           ELSE {<< >>}) :
           reply' = Reply("get_messages", s,
                          [offset |-> offset, limit |-> limit, desc |-> desc], page)
    /\ UNCHANGED << messages, conn, schema, db_version, memories, memory_seq >>
    /\ UNCHANGED client_vars
    /\ UNCHANGED ext_vars

\* storage.py:456-478 SQLiteStorageService.get_message_by_item_id
GetMessageByItemId(s, item_id) ==
    /\ \E found \in (IF _get_connection(s) THEN get_message_by_item_id(messages, item_id)
                                            ELSE {NoMessage}) :
           reply' = Reply("get_message_by_item_id", s, [item_id |-> item_id], found)
    /\ UNCHANGED << messages, conn, schema, db_version, memories, memory_seq >>
    /\ UNCHANGED client_vars
    /\ UNCHANGED ext_vars

\* storage.py:480-496 SQLiteStorageService.save_memory
SaveMemory(s, m) ==
    /\ memory_seq < MaxMemories
    /\ LET r == IF _get_connection(s) THEN save_memory(memories, memory_seq, m)
                                      ELSE [rows |-> memories, seq |-> memory_seq]
       IN  /\ memories' = r.rows
           /\ memory_seq' = r.seq
    /\ reply' = Reply("save_memory", s, [memory |-> m], _get_connection(s))
    /\ UNCHANGED << messages, conn, schema, db_version >>
    /\ UNCHANGED client_vars
    /\ UNCHANGED ext_vars

\* storage.py:498-519 SQLiteStorageService.get_memory
GetMemory(s, memory_id) ==
    /\ reply' = Reply("get_memory", s, [memory_id |-> memory_id],
                      IF _get_connection(s) THEN get_memory(memories, memory_id)
                                            ELSE NoMemory)
    /\ UNCHANGED << messages, conn, schema, db_version, memories, memory_seq >>
    /\ UNCHANGED client_vars
    /\ UNCHANGED ext_vars

\* storage.py:521-537 SQLiteStorageService.update_memory
UpdateMemory(s, memory_id, m) ==
    /\ LET r == IF _get_connection(s) THEN update_memory(memories, memory_id, m)
                                      ELSE [rows |-> memories, ret |-> FALSE]
       IN  /\ memories' = r.rows
           /\ reply' = Reply("update_memory", s,
                             [memory_id |-> memory_id, memory |-> m], r.ret)
    /\ UNCHANGED << messages, conn, schema, db_version, memory_seq >>
    /\ UNCHANGED client_vars
    /\ UNCHANGED ext_vars

\* storage.py:539-549 SQLiteStorageService.delete_memory
DeleteMemory(s, memory_id) ==
    /\ LET r == IF _get_connection(s) THEN delete_memory(memories, memory_id)
                                      ELSE [rows |-> memories, ret |-> FALSE]
       IN  /\ memories' = r.rows
           /\ reply' = Reply("delete_memory", s, [memory_id |-> memory_id], r.ret)
    /\ UNCHANGED << messages, conn, schema, db_version, memory_seq >>
    /\ UNCHANGED client_vars
    /\ UNCHANGED ext_vars

\* storage.py:551-571 SQLiteStorageService.get_latest_memory
GetLatestMemory(s) ==
    /\ \E found \in (IF _get_connection(s) THEN get_latest_memory(memories)
                                            ELSE {NoMemory}) :
           reply' = Reply("get_latest_memory", s, [none |-> TRUE], found)
    /\ UNCHANGED << messages, conn, schema, db_version, memories, memory_seq >>
    /\ UNCHANGED client_vars
    /\ UNCHANGED ext_vars

\* storage.py:573-597 SQLiteStorageService.get_memories
GetMemories(s, offset, limit, desc) ==
    /\ \E page \in (IF _get_connection(s) THEN get_memories(memories, offset, limit, desc)
                                           ELSE {<< >>}) :
           reply' = Reply("get_memories", s,
                          [offset |-> offset, limit |-> limit, desc |-> desc], page)
    /\ UNCHANGED << messages, conn, schema, db_version, memories, memory_seq >>
    /\ UNCHANGED client_vars
    /\ UNCHANGED ext_vars

-----------------------------------------------------------------------------
(* The socket client (com/ticos/ticos_client.py).  Thread 1 is the caller's;  *)
(* every connection made starts a receive thread, and _start_reconnect_thread *)
(* starts the reconnect thread.  A thread takes _lock in the step that needs  *)
(* it and gives it back in the same step, unless it blocks while holding it.  *)

\* com/ticos/ticos_client.py:11-20 __init__; handle names the socket object that
\* self.socket holds when it holds one, by the receive thread started for it
NewClient ==
    [socket |-> "none", running |-> TRUE, is_reconnecting |-> FALSE,
     reconnect_thread |-> 0, _lock |-> 0, handle |-> 0]

\* a thread: the method it runs, where it is, the auto_reconnect argument of its
\* connect call, the last call it finished and what that returned
Proc(kind, pc) ==
    [kind |-> kind, pc |-> pc, auto |-> FALSE, call |-> "none", ret |-> "none"]

socket_frame ==
    << base_vars, start_vars, stopping, send_vars, wire_vars, agent_id, success, txn_vars >>

\* threading.Thread.is_alive
is_alive(t) == t # 0 /\ procs[t].pc # "dead"

\* the reconnect threads that have not ended
Loops == {t \in DOMAIN procs : procs[t].kind = "reconnect" /\ procs[t].pc # "dead"}

Returns(t, call, ret) == [procs[t] EXCEPT !.pc = "idle", !.call = call, !.ret = ret]

\* a thread that asks for _lock while it holds it never gets it
Blocks(t, call) == [procs[t] EXCEPT !.pc = "blocked", !.call = call, !.ret = "none"]

\* com/ticos/ticos_client.py:26-29 connect: a connection that answers the check is
\* kept; detects tells whether socket.send(b'') raises on a broken connection
connect(t, auto_reconnect, detects) ==
    /\ procs[t].kind = "app" /\ procs[t].pc = "idle"
    /\ procs' = [procs EXCEPT ![t] =
           IF client.socket = "live" \/ (client.socket = "dead" /\ ~detects)
           THEN Returns(t, "connect", "True")
           ELSE [procs[t] EXCEPT !.auto = auto_reconnect,
                                 !.pc = IF client.socket = "dead" THEN "check_cleanup"
                                                                  ELSE "connect_lock"]]
    /\ UNCHANGED << client, transport >>
    /\ UNCHANGED socket_frame

\* com/ticos/ticos_client.py:86-89 _check_connection, called without the lock:
\* the broken socket is closed under the lock
_check_connection(t) ==
    /\ procs[t].pc = "check_cleanup"
    /\ client._lock = 0
    /\ client' = [client EXCEPT !.socket = "none"]
    /\ procs' = [procs EXCEPT ![t].pc = IF procs[t].kind = "app" THEN "connect_lock"
                                                                  ELSE "receive_exit"]
    /\ UNCHANGED transport
    /\ UNCHANGED socket_frame

\* com/ticos/ticos_client.py:33-52 connect, under the lock: a new connection and
\* its receive thread, or no socket and whether a reconnect thread is wanted
connect_locked(t) ==
    /\ procs[t].pc = "connect_lock"
    /\ client._lock = 0
    /\ IF transport = "up"
       THEN /\ Len(procs) < MaxThreads
            /\ client' = [client EXCEPT !.socket = "live", !.handle = Len(procs) + 1]
            /\ procs' = Append([procs EXCEPT ![t] = Returns(t, "connect", "True")],
                               Proc("receive", "receive"))
       ELSE /\ client' = [client EXCEPT !.socket = "none"]
            /\ procs' = [procs EXCEPT ![t] =
                   IF procs[t].auto /\ ~client.is_reconnecting
                   THEN [procs[t] EXCEPT !.pc = "start_reconnect", !.call = "connect",
                                         !.ret = "False"]
                   ELSE Returns(t, "connect", "False")]
    /\ UNCHANGED transport
    /\ UNCHANGED socket_frame

\* a bug: a reconnect thread is started whether or not one is alive
NeverAlive(t) == FALSE

\* com/ticos/ticos_client.py:120 `self.reconnect_thread and self.reconnect_thread.is_alive()`
ReconnectAlive(t) == is_alive(t)

\* com/ticos/ticos_client.py:117-125 _start_reconnect_thread, called without the
\* lock by connect and by the receive thread on its way out
_start_reconnect_thread(t) ==
    /\ procs[t].pc = "start_reconnect"
    /\ client._lock = 0
    /\ LET after == [procs EXCEPT ![t].pc = IF procs[t].kind = "app" THEN "idle"
                                                                      ELSE "dead"]
       IN  IF ReconnectAlive(client.reconnect_thread)
           THEN /\ procs' = after
                /\ client' = client
           ELSE /\ Len(procs) < MaxThreads
                /\ procs' = Append(after, Proc("reconnect", "loop"))
                /\ client' = [client EXCEPT !.is_reconnecting = TRUE,
                                            !.reconnect_thread = Len(procs) + 1]
    /\ UNCHANGED transport
    /\ UNCHANGED socket_frame

\* com/ticos/ticos_client.py:93-97 and 113-114: send_message calls
\* _start_reconnect_thread while it holds _lock, a threading.Lock
StartsUnderLock(t) == Blocks(t, "send_message")

\* com/ticos/ticos_client.py:91-115 send_message; detects as in connect, goes
\* tells whether sendall on a broken connection still returns
send_message(t, detects, goes) ==
    /\ procs[t].kind = "app" /\ procs[t].pc = "idle"
    /\ client._lock = 0
    /\ LET wants == ~client.is_reconnecting /\ client.running
           held == [client EXCEPT !._lock = t]
       IN  CASE client.socket = "none" ->
                    IF wants
                    THEN /\ procs' = [procs EXCEPT ![t] = StartsUnderLock(t)]
                         /\ client' = held
                    ELSE /\ procs' = [procs EXCEPT ![t] = Returns(t, "send_message", "False")]
                         /\ client' = client
             [] client.socket = "dead" /\ detects ->
                    \* _check_connection asks for the lock its caller holds
                    /\ procs' = [procs EXCEPT ![t] = Blocks(t, "send_message")]
                    /\ client' = held
             [] client.socket = "live" \/ (client.socket = "dead" /\ ~detects /\ goes) ->
                    /\ procs' = [procs EXCEPT ![t] = Returns(t, "send_message", "True")]
                    /\ client' = client
             [] OTHER ->
                    IF wants
                    THEN /\ procs' = [procs EXCEPT ![t] = StartsUnderLock(t)]
                         /\ client' = [held EXCEPT !.socket = "none"]
                    ELSE /\ procs' = [procs EXCEPT ![t] = Returns(t, "send_message", "False")]
                         /\ client' = [client EXCEPT !.socket = "none"]
    /\ UNCHANGED transport
    /\ UNCHANGED socket_frame

\* com/ticos/ticos_client.py:54-56 disconnect: running goes first
disconnect(t) ==
    /\ procs[t].kind = "app" /\ procs[t].pc = "idle"
    /\ client' = [client EXCEPT !.running = FALSE]
    /\ procs' = [procs EXCEPT ![t].pc = "disconnect_flag"]
    /\ UNCHANGED transport
    /\ UNCHANGED socket_frame

\* com/ticos/ticos_client.py:57-59: is_reconnecting is reset and the reconnect
\* thread is given a second to end
disconnect_joins(t) ==
    /\ procs[t].pc = "disconnect_flag"
    /\ client' = [client EXCEPT !.is_reconnecting = FALSE]
    /\ procs' = [procs EXCEPT ![t].pc = "disconnect_lock"]
    /\ UNCHANGED transport
    /\ UNCHANGED socket_frame

\* com/ticos/ticos_client.py:60-62: the socket is closed under the lock
disconnect_locked(t) ==
    /\ procs[t].pc = "disconnect_lock"
    /\ client._lock = 0
    /\ client' = [client EXCEPT !.socket = "none"]
    /\ procs' = [procs EXCEPT ![t] = Returns(t, "disconnect", "None")]
    /\ UNCHANGED transport
    /\ UNCHANGED socket_frame

\* com/ticos/ticos_client.py:162-190 _receive_loop: the thread waits in recv while
\* the connection lives and leaves the loop when the client stops, the socket is
\* gone or the connection is found broken
_receive_loop(t, detects) ==
    /\ procs[t].pc = "receive"
    /\ ~client.running \/ client.socket # "live"
    /\ procs' = [procs EXCEPT ![t].pc =
           IF client.running /\ client.socket = "dead" /\ detects THEN "check_cleanup"
                                                                  ELSE "receive_exit"]
    /\ UNCHANGED << client, transport >>
    /\ UNCHANGED socket_frame

\* com/ticos/ticos_client.py:192-194: on its way out the receive thread closes
\* whatever socket the client has
receive_cleanup(t) ==
    /\ procs[t].pc = "receive_exit"
    /\ client._lock = 0
    /\ client' = [client EXCEPT !.socket = "none"]
    /\ procs' = [procs EXCEPT ![t].pc = "receive_decide"]
    /\ UNCHANGED transport
    /\ UNCHANGED socket_frame

\* com/ticos/ticos_client.py:195-196
receive_decides(t) ==
    /\ procs[t].pc = "receive_decide"
    /\ procs' = [procs EXCEPT ![t].pc =
           IF ~client.is_reconnecting /\ client.running THEN "start_reconnect" ELSE "dead"]
    /\ UNCHANGED << client, transport >>
    /\ UNCHANGED socket_frame

\* com/ticos/ticos_client.py:130-133 _reconnect_loop: the loop condition, then the
\* sleep of reconnect_interval seconds
_reconnect_loop(t) ==
    /\ procs[t].pc = "loop"
    /\ procs' = [procs EXCEPT ![t].pc =
           IF client.running /\ client.is_reconnecting THEN "sleep" ELSE "dead"]
    /\ UNCHANGED << client, transport >>
    /\ UNCHANGED socket_frame

\* com/ticos/ticos_client.py:133-136: the sleep is over
reconnect_wakes(t) ==
    /\ procs[t].pc = "sleep"
    /\ procs' = [procs EXCEPT ![t].pc = IF client.running THEN "attempt" ELSE "dead"]
    /\ UNCHANGED << client, transport >>
    /\ UNCHANGED socket_frame

\* com/ticos/ticos_client.py:138-155: one attempt under the lock; on success the
\* receive thread is started, is_reconnecting is reset and the loop is left
reconnect_attempt(t) ==
    /\ procs[t].pc = "attempt"
    /\ client._lock = 0
    /\ IF transport = "up"
       THEN /\ Len(procs) < MaxThreads
            /\ client' = [client EXCEPT !.socket = "live", !.is_reconnecting = FALSE,
                                        !.handle = Len(procs) + 1]
            /\ procs' = Append([procs EXCEPT ![t].pc = "leaving"],
                               Proc("receive", "receive"))
       ELSE /\ client' = [client EXCEPT !.socket = "none"]
            /\ procs' = [procs EXCEPT ![t].pc = "loop"]
    /\ UNCHANGED transport
    /\ UNCHANGED socket_frame

\* com/ticos/ticos_client.py:157-160: the thread logs why it stops and ends
reconnect_ends(t) ==
    /\ procs[t].pc = "leaving"
    /\ procs' = [procs EXCEPT ![t].pc = "dead"]
    /\ UNCHANGED << client, transport >>
    /\ UNCHANGED socket_frame

\* the peer closes the connection or the network drops it
Breaks ==
    /\ client.socket = "live"
    /\ client' = [client EXCEPT !.socket = "dead"]
    /\ UNCHANGED << procs, transport >>
    /\ UNCHANGED socket_frame

\* the motion service stops or starts accepting connections
ServiceTurns ==
    /\ transport' = IF transport = "up" THEN "down" ELSE "up"
    /\ UNCHANGED << client, procs >>
    /\ UNCHANGED socket_frame

\* what the id generator and the wall clock leave alone
id_frame ==
    << storage, messages, cache, message_counter, memgen, background_tasks, handler,
       last, turn, turns, store_vars, memory_vars, start_vars, stopping, broadcast,
       answer, socket_vars, wire_vars, agent_id, success, txn_vars >>

\* time.time() between two calls: the wall clock stays, advances or is set back
ClockSet(t) ==
    /\ now' = t
    /\ UNCHANGED << last_message_id, issued >>
    /\ UNCHANGED id_frame

\* ticos_client.py:86-101 _generate_message_id called (ticos_client.py:466, 567):
\* the id is kept as the last one and returned
GenerateMessageId ==
    /\ Len(issued) < MaxIssued
    /\ last_message_id' = _generate_message_id(last_message_id, now)
    /\ issued' = Append(issued, last_message_id')
    /\ UNCHANGED now
    /\ UNCHANGED id_frame

-----------------------------------------------------------------------------
(* start() and stop().  start() makes a UnifiedServer and the thread that    *)
(* runs it, then looks three times at what the thread has done so far; the   *)
(* thread's steps run beside it.  stop() asks the server to exit, waits for  *)
(* its thread and for the registered background threads, each wait bounded,  *)
(* and closes the store.                                                     *)

\* startup_error_message is None
NoError == "None"

\* server.py:49-72 and ticos_client.py:224-235: the UnifiedServer that start
\* attempt n makes, with its thread at the top of run() and the number of
\* WebSocket clients connected to it
UnifiedServer(n) ==
    [attempt |-> n, startup_error_message |-> NoError, _server |-> "None",
     _should_exit |-> FALSE, thread |-> "run", cause |-> NoError,
     websocket_connections |-> 0]

\* the health.status event of start attempt n, sent by start() or by the server
HealthStatus(n, by) ==
    [type |-> "health.status", code |-> "EXECUTER_ERROR", attempt |-> n, by |-> by]

\* ticos_client.py:253-261 and 612-668: the message handler, when one is
\* registered, is given the event
message_handler(n, by) ==
    IF Registered("message") THEN Append(health, HealthStatus(n, by)) ELSE health

\* what start() and the server thread leave alone
client_rest ==
    << now, storage, messages, cache, last_message_id, message_counter, memgen,
       handler, last, turn, turns, schema, db_version, memories, memory_seq, reply,
       threads, session_config, remote, summary, caller, counted, launched >>
start_frame ==
    << client_rest, background_tasks, conn, stopping, send_vars, socket_vars,
       wire_vars, agent_id, success, txn_vars >>

\* start() returns ret
start_returns(ret) == [pc |-> "idle", ret |-> Append(starting.ret, ret)]

\* ticos_client.py:224-240: start() makes the server and its thread and sleeps
start_begins ==
    /\ starting.pc = "idle"
    /\ Len(servers) < MaxStarts
    /\ servers' = Append(servers, UnifiedServer(Len(servers) + 1))
    /\ server' = Len(servers) + 1
    /\ starting' = [starting EXCEPT !.pc = "check1"]
    /\ UNCHANGED << running, health >>
    /\ UNCHANGED start_frame

\* ticos_client.py:244-247: check 1, the server has set startup_error_message
start_check1 ==
    /\ starting.pc = "check1"
    /\ IF servers[server].startup_error_message # NoError
       THEN /\ running' = FALSE
            /\ starting' = start_returns(FALSE)
       ELSE /\ running' = running
            /\ starting' = [starting EXCEPT !.pc = "check2"]
    /\ UNCHANGED << server, servers, health >>
    /\ UNCHANGED start_frame

\* ticos_client.py:250-263: check 2, the server thread is dead
start_check2 ==
    /\ starting.pc = "check2"
    /\ IF servers[server].thread = "dead"
       THEN /\ health' = message_handler(server, "start")
            /\ running' = FALSE
            /\ starting' = start_returns(FALSE)
       ELSE /\ health' = health
            /\ running' = running
            /\ starting' = [starting EXCEPT !.pc = "check3"]
    /\ UNCHANGED << server, servers >>
    /\ UNCHANGED start_frame

\* ticos_client.py:267-293: check 3, uvicorn has started or not
start_check3 ==
    /\ starting.pc = "check3"
    /\ IF servers[server]._server = "started"
       THEN /\ health' = health
            /\ running' = TRUE
            /\ starting' = start_returns(TRUE)
       ELSE /\ health' = message_handler(server, "start")
            /\ running' = FALSE
            /\ starting' = start_returns(FALSE)
    /\ UNCHANGED << server, servers >>
    /\ UNCHANGED start_frame

\* server.py:315-328 and 381-384: the server thread makes the uvicorn server, or
\* an exception ends the setup
_serve_uvicorn(n, raises) ==
    /\ servers[n].thread = "run"
    /\ servers' = [servers EXCEPT ![n] =
                       IF raises THEN [@ EXCEPT !.thread = "failed", !.cause = "error"]
                       ELSE [@ EXCEPT !.thread = "startup", !._server = "created"]]
    /\ UNCHANGED << server, starting, health, running >>
    /\ UNCHANGED start_frame

\* how uvicorn's startup ends: started; SystemExit after a bind error that names
\* the port in use, or after another error; serve() returning without having
\* started
Outcomes == {"started", "in_use", "critical", "exited"}

\* server.py:328, 344-349, 361-371: uvicorn's startup ends
serve(n, outcome) ==
    /\ servers[n].thread = "startup"
    /\ servers' = [servers EXCEPT ![n] =
                       IF outcome = "started"
                       THEN [@ EXCEPT !.thread = "serving", !._server = "started"]
                       ELSE [@ EXCEPT !.thread = "failed", !.cause = outcome]]
    /\ UNCHANGED << server, starting, health, running >>
    /\ UNCHANGED start_frame

\* server.py:347, 364-371, 383: run() sets startup_error_message
run_sets_error(n) ==
    /\ servers[n].thread = "failed"
    /\ servers' = [servers EXCEPT ![n].startup_error_message = servers[n].cause,
                                  ![n].thread = "notify"]
    /\ UNCHANGED << server, starting, health, running >>
    /\ UNCHANGED start_frame

\* server.py:349-354, 374-379, 385-390, 391-393: run() hands the event to
\* handle_message and the thread ends
run_notifies(n) ==
    /\ servers[n].thread = "notify"
    /\ health' = message_handler(servers[n].attempt, "server")
    /\ servers' = [servers EXCEPT ![n].thread = "dead", ![n]._should_exit = TRUE]
    /\ UNCHANGED << server, starting, running >>
    /\ UNCHANGED start_frame

\* server.py:341-345, 391-393: asked to exit, the started server shuts down and
\* the thread ends
run_exits(n) ==
    /\ servers[n].thread = "serving"
    /\ servers[n]._should_exit
    /\ servers' = [servers EXCEPT ![n].thread = "dead"]
    /\ UNCHANGED << server, starting, health, running >>
    /\ UNCHANGED start_frame

\* what stop() leaves alone
stop_frame ==
    << client_rest, starting, health, send_vars, socket_vars, wire_vars, agent_id,
       success, txn_vars >>

\* ticos_client.py:313-331: stop() asks the server, if there is one, to exit
stop_begins ==
    /\ stopping.pc = "idle"
    /\ servers' = IF server # 0 THEN [servers EXCEPT ![server]._should_exit = TRUE]
                                ELSE servers
    /\ stopping' = [stopping EXCEPT !.pc = "join_server"]
    /\ UNCHANGED << server, running, background_tasks, conn >>
    /\ UNCHANGED stop_frame

\* a bug: stop() waits for a thread without a timeout
join_forever(ended) == ended

\* ticos_client.py:335 and 353: join(timeout=...) returns when the thread has
\* ended or the timeout has passed
join(ended) == TRUE

\* ticos_client.py:334-343: stop() waits for the server thread; ws_client, never
\* connected by the client, has nothing to close
stop_joins_server ==
    /\ stopping.pc = "join_server"
    /\ server # 0 => join(servers[server].thread = "dead")
    /\ stopping' = [stopping EXCEPT !.pc = "collect"]
    /\ UNCHANGED << server, servers, running, background_tasks, conn >>
    /\ UNCHANGED stop_frame

\* ticos_client.py:346-348: the registered threads are taken and the list cleared
stop_collects ==
    /\ stopping.pc = "collect"
    /\ stopping' = [stopping EXCEPT !.pc = IF background_tasks = << >> THEN "clean"
                                                                      ELSE "join",
                                    !.tasks = [i \in DOMAIN background_tasks |-> i]]
    /\ background_tasks' = << >>
    /\ UNCHANGED << server, servers, running, conn >>
    /\ UNCHANGED stop_frame

\* ticos_client.py:352-357: stop() waits for the next thread taken; one that is
\* still alive after the wait is logged and left
stop_joins ==
    /\ stopping.pc = "join"
    /\ LET task == stopping.tasks[Len(stopping.waited) + 1]
       IN  /\ join(threads[task].pc = "done")
           /\ stopping' =
                  [stopping EXCEPT
                       !.waited = Append(@, threads[task].pc = "done"),
                       !.pc = IF Len(stopping.waited) + 1 = Len(stopping.tasks)
                              THEN "clean" ELSE "join"]
    /\ UNCHANGED << server, servers, running, background_tasks, conn >>
    /\ UNCHANGED stop_frame

\* ticos_client.py:361-372: the references are cleared and the store is closed
stop_cleans ==
    /\ stopping.pc = "clean"
    /\ server' = 0
    /\ running' = FALSE
    /\ conn' = IF storage = "none" THEN conn ELSE conn \ {ClientStore}
    /\ stopping' = [stopping EXCEPT !.pc = "returned"]
    /\ UNCHANGED << servers, background_tasks >>
    /\ UNCHANGED stop_frame

stop == stop_joins_server \/ stop_collects \/ stop_joins \/ stop_cleans

-----------------------------------------------------------------------------
(* The wire of the socket client.  JSON text is a sequence of characters, a   *)
(* byte is a number; the characters json.dumps writes are ASCII, which UTF-8  *)
(* encodes one byte each.  A character outside ASCII is named by its code     *)
(* point.                                                                     *)

\* the characters of the messages and of their JSON text
Ascii ==
    {"{", "}", "\"", "\\", ":", ",", " ", "a", "c", "d", "e", "f", "i", "n", "u",
     "0", "1", "9"}

\* str.encode('utf-8') of an ASCII character
ord(c) ==
    CASE c = " " -> 32 [] c = "\"" -> 34 [] c = "," -> 44 [] c = "0" -> 48
      [] c = "1" -> 49 [] c = "9" -> 57 [] c = ":" -> 58 [] c = "\\" -> 92
      [] c = "a" -> 97 [] c = "c" -> 99 [] c = "d" -> 100 [] c = "e" -> 101
      [] c = "f" -> 102 [] c = "i" -> 105 [] c = "n" -> 110 [] c = "u" -> 117
      [] c = "{" -> 123 [] c = "}" -> 125

\* bytes.decode('utf-8') of a byte below 128
chr(b) == CHOOSE c \in Ascii : ord(c) = b

encode(text) == [i \in DOMAIN text |-> ord(text[i])]
decode(bytes) == [i \in DOMAIN bytes |-> chr(bytes[i])]

\* json.dumps of a string (ensure_ascii): quotes and backslashes are escaped, a
\* character outside ASCII is written as \uXXXX
escape(c) ==
    CASE c = "\"" -> << "\\", "\"" >>
      [] c = "\\" -> << "\\", "\\" >>
      [] c = "U+00E9" -> << "\\", "u", "0", "0", "e", "9" >>
      [] OTHER -> << c >>

RECURSIVE escaped(_)
escaped(s) == IF s = << >> THEN << >> ELSE escape(Head(s)) \o escaped(Tail(s))

quote(s) == << "\"" >> \o escaped(s) \o << "\"" >>

KeyFunc == << "{", "\"", "f", "u", "n", "c", "\"", ":", " " >>
KeyId == << ",", " ", "\"", "i", "d", "\"", ":", " " >>

\* com/ticos/ticos_client.py:100-106: json.dumps({"func": func, "id": id})
dumps(message) == KeyFunc \o quote(message.func) \o KeyId \o quote(message.id) \o << "}" >>

\* json.loads did not find a JSON object
Invalid == [func |-> << "invalid" >>, id |-> << "invalid" >>]

\* json.loads of a string: the characters from position i, after the opening
\* quote, up to the closing quote, and the position after it
RECURSIVE ReadString(_, _, _)
ReadString(text, i, acc) ==
    IF i > Len(text) THEN [ok |-> FALSE, value |-> acc, next |-> i]
    ELSE IF text[i] = "\"" THEN [ok |-> TRUE, value |-> acc, next |-> i + 1]
    ELSE IF text[i] # "\\" THEN ReadString(text, i + 1, Append(acc, text[i]))
    ELSE IF i + 1 > Len(text) THEN [ok |-> FALSE, value |-> acc, next |-> i]
    ELSE IF text[i + 1] \in {"\"", "\\"}
         THEN ReadString(text, i + 2, Append(acc, text[i + 1]))
    ELSE IF SubSeq(text, i + 1, i + 5) = << "u", "0", "0", "e", "9" >>
         THEN ReadString(text, i + 6, Append(acc, "U+00E9"))
    ELSE [ok |-> FALSE, value |-> acc, next |-> i]

\* text has lit at position i
Has(text, i, lit) == SubSeq(text, i, i + Len(lit) - 1) = lit

\* com/ticos/ticos_client.py:181: json.loads of the text of a message
loads(text) ==
    IF ~Has(text, 1, KeyFunc \o << "\"" >>) THEN Invalid
    ELSE LET f == ReadString(text, Len(KeyFunc) + 2, << >>)
         IN  IF ~f.ok \/ ~Has(text, f.next, KeyId \o << "\"" >>) THEN Invalid
             ELSE LET d == ReadString(text, f.next + Len(KeyId) + 1, << >>)
                  IN  IF d.ok /\ Has(text, d.next, << "}" >>) /\ d.next = Len(text)
                      THEN [func |-> f.value, id |-> d.value]
                      ELSE Invalid

\* a bug: the length goes out least significant byte first
to_bytes_little(n) ==
    << n % 256, (n \div 256) % 256, (n \div 65536) % 256, (n \div 16777216) % 256 >>

\* com/ticos/ticos_client.py:107: len(msg_bytes).to_bytes(4, byteorder='big')
to_bytes(n) ==
    << (n \div 16777216) % 256, (n \div 65536) % 256, (n \div 256) % 256, n % 256 >>

\* com/ticos/ticos_client.py:174: int.from_bytes(length_bytes, byteorder='big')
from_bytes(b) == b[1] * 16777216 + b[2] * 65536 + b[3] * 256 + b[4]

\* com/ticos/ticos_client.py:106-108: the bytes send_message hands to sendall
Frame(message) ==
    LET msg_bytes == encode(dumps(message)) IN to_bytes(Len(msg_bytes)) \o msg_bytes

\* what the wire steps leave alone
wire_frame ==
    << base_vars, start_vars, stopping, send_vars, socket_vars, agent_id, success, txn_vars >>

\* com/ticos/ticos_client.py:100-109: send_message on a live connection writes
\* the frame of {"func": func, "id": id}
sendall(func, id) ==
    /\ ~wire.closed
    /\ Len(framed) < MaxFrames
    /\ wire' = [wire EXCEPT !.data = @ \o Frame([func |-> func, id |-> id])]
    /\ framed' = Append(framed, [func |-> func, id |-> id])
    /\ UNCHANGED << rx, delivered >>
    /\ UNCHANGED wire_frame

\* the connection breaks: the bytes that got through so far are all there is
StreamEnds(n) ==
    /\ ~wire.closed
    /\ wire' = [data |-> SubSeq(wire.data, 1, n), closed |-> TRUE]
    /\ UNCHANGED << rx, delivered, framed >>
    /\ UNCHANGED wire_frame

\* _receive_loop is about to read the length of a frame
AwaitLength(taken) == [phase |-> "length", need |-> 4, data |-> << >>, taken |-> taken]

\* com/ticos/ticos_client.py:170-186, 198-209: one socket.recv of _receive_exactly
\* returns k bytes; with the last byte of the length the loop goes on to the
\* message, with the last byte of the message it decodes it and hands it on
recv(k) ==
    /\ rx.phase \in {"length", "message"}
    /\ k \in 1..(rx.need - Len(rx.data))
    /\ k <= Len(wire.data)
    /\ LET data == rx.data \o SubSeq(wire.data, 1, k)
           taken == rx.taken + k
       IN  /\ wire' = [wire EXCEPT !.data = SubSeq(@, k + 1, Len(@))]
           /\ IF Len(data) < rx.need
              THEN /\ rx' = [rx EXCEPT !.data = data, !.taken = taken]
                   /\ delivered' = delivered
              ELSE IF rx.phase = "length"
              THEN /\ rx' = IF from_bytes(data) = 0
                            THEN [AwaitLength(taken) EXCEPT !.phase = "ended"]
                            ELSE [phase |-> "message", need |-> from_bytes(data),
                                  data |-> << >>, taken |-> taken]
                   /\ delivered' = delivered
              ELSE IF loads(decode(data)) = Invalid
              THEN /\ rx' = [AwaitLength(taken) EXCEPT !.phase = "ended"]
                   /\ delivered' = delivered
              ELSE /\ rx' = AwaitLength(taken)
                   /\ delivered' = Append(delivered, loads(decode(data)))
    /\ UNCHANGED framed
    /\ UNCHANGED wire_frame

\* com/ticos/ticos_client.py:171-172, 178-179, 203-208: recv returns no bytes or
\* raises on the ended stream, _receive_exactly returns None and the loop ends
recv_nothing ==
    /\ rx.phase \in {"length", "message"}
    /\ wire.closed
    /\ wire.data = << >>
    /\ rx' = [rx EXCEPT !.phase = "ended"]
    /\ UNCHANGED << wire, delivered, framed >>
    /\ UNCHANGED wire_frame

-----------------------------------------------------------------------------
(* TicosClient.send_message: a message goes out to the WebSocket clients     *)
(* connected to the server.                                                  *)

\* an argument of send_message: a value of some type and, for a dict, the value
\* of its name field
Argument(type, name) == [type |-> type, name |-> name]

\* what send_message leaves alone
send_frame ==
    << base_vars, server, starting, health, stopping, issued, socket_vars, wire_vars,
       agent_id, success, txn_vars >>

\* server.py:198-204: a WebSocket client connects
_register_websocket ==
    /\ server # 0
    /\ answer # "blocked"
    /\ servers[server].websocket_connections < MaxConnections
    /\ servers' = [servers EXCEPT ![server].websocket_connections = @ + 1]
    /\ UNCHANGED << broadcast, answer >>
    /\ UNCHANGED send_frame

\* server.py:206-213: a WebSocket client goes
_unregister_websocket ==
    /\ server # 0
    /\ answer # "blocked"
    /\ servers[server].websocket_connections > 0
    /\ servers' = [servers EXCEPT ![server].websocket_connections = @ - 1]
    /\ UNCHANGED << broadcast, answer >>
    /\ UNCHANGED send_frame

\* tests/test_ticos_client.py:139-143: the messages the test takes for valid
RequiresName(message) == message.type = "dict" /\ message.name # Absent

\* ticos_client.py:392-394: what send_message accepts
Accepts(message) == message.type = "dict"

\* ticos_client.py:381-416 and server.py:279-307: send_message(message); with a
\* server and connections the message is sent to each connection, the first
\* reached connections taking it; when the send to one raises, broadcast_message,
\* holding websocket_lock, calls _unregister_websocket, which waits for that lock
SendMessage(message, reached) ==
    /\ answer # "blocked"
    /\ IF ~Accepts(message)
       THEN /\ answer' = "False"
            /\ broadcast' = broadcast
       ELSE IF server = 0 \/ servers[server].websocket_connections = 0
       THEN /\ answer' = "True"
            /\ broadcast' = broadcast
       ELSE /\ reached \in 0..servers[server].websocket_connections
            /\ reached > 0 => Len(broadcast) < MaxSent
            /\ broadcast' = IF reached = 0 THEN broadcast
                            ELSE Append(broadcast, [message |-> message, to |-> reached])
            /\ answer' = IF reached = servers[server].websocket_connections
                         THEN "True" ELSE "blocked"
    /\ UNCHANGED servers
    /\ UNCHANGED send_frame

-----------------------------------------------------------------------------
(* Inputs *)

Deltas == {NoText, <<"a">>, <<"b">>}
Transcripts == {<<"a">>, <<"a", "b">>}
FunctionNames == {"motion", "emotion", "motion_and_emotion", "dance"}

ReassemblyEnvelopes ==
    {Delta("A", d) : d \in Deltas}
    \cup {Delta("B", <<"b">>), Delta(NoItem, <<"a">>), Done(NoItem), Done("B")}
    \cup {ItemCreated("U", "message", "user", TRUE),
          ItemCreated("U", "message", "user", FALSE),
          ItemCreated("A", "message", "assistant", TRUE)}
    \cup {Completed("U", t) : t \in Transcripts}
    \cup {Completed("V", <<"a">>), Completed(NoItem, <<"a">>)}

FunctionEnvelopes ==
    {FunctionCall(n, a) : n \in FunctionNames, a \in ArgStrings \cup {Absent}}
    \cup {OutputItemDone("message", Absent, Absent)}

-----------------------------------------------------------------------------
(* Specifications *)

\* the parts of the program a specification leaves at rest: no server made, no
\* start or stop call, nothing sent, no socket client, an agent id configured
ServerApart == server = 0 /\ servers = << >> /\ starting = 0 /\ health = << >>
StopApart == stopping = 0
SendApart == issued = << >> /\ broadcast = << >> /\ answer = 0
SocketApart == client = 0 /\ procs = << >> /\ transport = 0
WireApart == wire = 0 /\ rx = 0 /\ delivered = << >> /\ framed = << >>
PushApart == agent_id = <<"a", "g">> /\ success = NotSent
TxnApart == updating = 0 /\ committed = 0

Apart ==
    /\ ServerApart /\ StopApart /\ SendApart /\ SocketApart /\ WireApart /\ PushApart
    /\ TxnApart

\* the client after construction (ticos_client.py:33-84)
TicosClient ==
    /\ now = 1
    /\ storage = "none"
    /\ messages = {}
    /\ cache = EmptyCache
    /\ last_message_id = 0
    /\ message_counter = 0
    /\ background_tasks = << >>
    /\ handler = [h \in HandlerNames |-> "none"]
    /\ last = Idle
    /\ turn = NoTurn
    /\ turns = << >>
    /\ conn = {}
    /\ schema = "absent"
    /\ db_version = << >>
    /\ memories = {}
    /\ memory_seq = 0
    /\ reply = NoReply
    /\ running = FALSE
    /\ threads = << >>
    /\ session_config = << >>
    /\ remote = << >>
    /\ summary = NotAsked
    /\ caller = NoCall
    /\ counted = 0
    /\ launched = 0

Constructed == TicosClient /\ Apart

\* Reassembly and persistence.  The application has set the client up as
\* examples/python/Main.py:135-150 does: handlers registered (each returning
\* normally), local storage enabled on a new database, client-side memory
\* generation configured.  Envelopes then arrive on the inbound link.
Init ==
    /\ now = 1
    /\ storage = "on"
    /\ messages = {}
    /\ cache = EmptyCache
    /\ last_message_id = 0
    /\ message_counter = 0
    /\ memgen = FALSE
    /\ background_tasks = << >>
    /\ handler = [h \in HandlerNames |-> "ok"]
    /\ last = Idle
    /\ turn = NoTurn
    /\ turns = << >>
    /\ conn = {ClientStore}
    /\ schema = "latest"
    /\ db_version = << CURRENT_DB_VERSION >>
    /\ memories = {}
    /\ memory_seq = 0
    /\ reply = NoReply
    /\ running = TRUE
    /\ threads = << >>
    /\ session_config = << >>
    /\ remote = << >>
    /\ summary = NotAsked
    /\ caller = NoCall
    /\ counted = 0
    /\ launched = 0
    /\ Apart

Inbound == ReassemblyEnvelopes \cup {Plain("response.created"), Unlisted}

Next ==
    \/ \E e \in Inbound : _handle_websocket_message(e)

Spec == Init /\ [][Next]_vars

\* Dispatch.  From the client as constructed, the application registers handlers
\* (each returning normally) in any order and may enable storage; envelopes arrive
\* on the inbound link or are handed to handle_message directly.
DispatchEnvelopes ==
    FunctionEnvelopes
    \cup {Done(NoItem), Plain("response.created"), Unlisted}

InitDispatch == Constructed /\ memgen = FALSE

NextDispatch ==
    \/ \E e \in DispatchEnvelopes : handle_message(e)
    \/ \E e \in DispatchEnvelopes : _handle_websocket_message(e)
    \/ \E h \in HandlerNames : set_handler(h, "ok")
    \/ enable_local_storage

SpecDispatch == InitDispatch /\ [][NextDispatch]_vars

\* Dispatch with callbacks that may raise.
FaultyEnvelopes ==
    {FunctionCall(n, a) : n \in FunctionNames, a \in {ArgWave, ArgBad}}
    \cup {Delta("A", <<"a">>), Done(NoItem), Plain("response.created")}

NextFaulty ==
    \/ \E e \in FaultyEnvelopes : handle_message(e)
    \/ \E h \in HandlerNames, mode \in {"ok", "raise"} : set_handler(h, mode)
    \/ enable_local_storage

SpecFaulty == InitDispatch /\ [][NextFaulty]_vars

\* The inbound link.  The client is set up as for Spec; envelopes of every listed
\* type and of unlisted types arrive, the threads started for conversation.created
\* run and end, time passes.
InboundMix ==
    {Delta("A", <<"a">>), Done(NoItem),
     ItemCreated("U", "message", "user", TRUE), Completed("U", <<"a">>),
     FunctionCall("motion", ArgWave),
     Plain("conversation.created"), Plain("response.created"),
     Plain("response.audio.delta"), Plain("response.video.done"),
     Plain("health.status"), Unlisted, Plain("error"), NoType}

InitInbound ==
    /\ now = 1
    /\ storage = "on"
    /\ messages = {}
    /\ cache = EmptyCache
    /\ last_message_id = 0
    /\ message_counter = 0
    /\ memgen = FALSE
    /\ background_tasks = << >>
    /\ handler = [h \in HandlerNames |-> "ok"]
    /\ last = Idle
    /\ turn = NoTurn
    /\ turns = << >>
    /\ conn = {ClientStore}
    /\ schema = "latest"
    /\ db_version = << CURRENT_DB_VERSION >>
    /\ memories = {}
    /\ memory_seq = 0
    /\ reply = NoReply
    /\ running = TRUE
    /\ threads = << >>
    /\ session_config = << >>
    /\ remote = << >>
    /\ summary = NotAsked
    /\ caller = NoCall
    /\ counted = 0
    /\ launched = 0
    /\ Apart

\* how many of the calls send, send, close of send_user_prompt_update return
Sent == 0..3

Live == 1..Len(threads)

NextInbound ==
    \/ \E e \in InboundMix : _handle_websocket_message(e)
    \/ Tick
    \/ \E i \in Live, sent \in Sent : _send_memory_update(i, sent)
    \/ TaskEnds

SpecInbound == InitInbound /\ [][NextInbound]_vars

\* The message table on its own.  A store instance is open on a current database;
\* messages of three ids are saved, read, updated and deleted in any order.
\* The memory pipeline.  The client is set up as for Spec, with
\* model.enable_memory_generation = "client", and its server thread is up, while start() has not yet seen it up; the application hands
\* envelopes to handle_message, whose call and return are separate steps, and the
\* background threads run beside it.
MemoryMix ==
    {Delta("A", <<"a">>), Delta("B", <<"b">>), Done(NoItem),
     ItemCreated("U", "message", "user", TRUE), Completed("U", <<"a">>)}

InitMemory ==
    /\ now = 1
    /\ storage = "on"
    /\ messages = {}
    /\ cache = EmptyCache
    /\ last_message_id = 0
    /\ message_counter = 0
    /\ memgen = TRUE
    /\ background_tasks = << >>
    /\ handler = [h \in HandlerNames |-> "ok"]
    /\ last = Idle
    /\ turn = NoTurn
    /\ turns = << >>
    /\ conn = {ClientStore}
    /\ schema = "latest"
    /\ db_version = << CURRENT_DB_VERSION >>
    /\ memories = {}
    /\ memory_seq = 0
    /\ reply = NoReply
    /\ running = FALSE
    /\ threads = << >>
    /\ session_config = << >>
    /\ remote = << >>
    /\ summary = NotAsked
    /\ caller = NoCall
    /\ counted = 0
    /\ launched = 0
    /\ Apart

NextMemory ==
    \/ \E e \in MemoryMix : handle_message_enters(e)
    \/ handle_message_returns
    \/ \E i \in Live : update_session_config_messages(i)
    \/ \E i \in Live : generate_memory(i)
    \/ \E i \in Live, out \in Summaries : summarize_conversation(i, out)
    \/ \E i \in Live, sent \in Sent : _send_memory_update(i, sent)
    \/ TaskEnds
    \/ start

SpecMemory == InitMemory /\ [][NextMemory]_vars

\* The session snapshot.  The store holds up to four messages of either role,
\* some user placeholders without text, at one of two seconds; the application
\* has the snapshot rewritten.
SnapshotIds == {1, 2, 3, 4}
SnapshotRows ==
    {Message(0, "user", c, "U", d) : c \in {NoText, <<"a">>}, d \in {1, 2}}
    \cup {Message(0, "assistant", <<"b">>, NoItem, d) : d \in {1, 2}}
    \cup {NoMessage}

StoredAs(f) == {[f[i] EXCEPT !.id = i] : i \in {j \in DOMAIN f : f[j] # NoMessage}}

InitSnapshot ==
    /\ now = 2
    /\ storage = "on"
    /\ messages \in {StoredAs(f) : f \in [SnapshotIds -> SnapshotRows]}
    /\ cache = EmptyCache
    /\ last_message_id = 0
    /\ message_counter = 0
    /\ memgen = TRUE
    /\ background_tasks = << >>
    /\ handler = [h \in HandlerNames |-> "ok"]
    /\ last = Idle
    /\ turn = NoTurn
    /\ turns = << >>
    /\ conn = {ClientStore}
    /\ schema = "latest"
    /\ db_version = << CURRENT_DB_VERSION >>
    /\ memories = {}
    /\ memory_seq = 0
    /\ reply = NoReply
    /\ running = TRUE
    /\ threads = << >>
    /\ session_config = << >>
    /\ remote = << >>
    /\ summary = NotAsked
    /\ caller = NoCall
    /\ counted = 0
    /\ launched = 0
    /\ Apart

NextSnapshot ==
    \/ UpdateSessionConfigMessages

SpecSnapshot == InitSnapshot /\ [][NextSnapshot]_vars

\* The memory push.  The store holds up to two memories of either type, with or
\* without text, at one of two seconds; memory generation is configured on the
\* client or not, with or without an agent id; a connecting WebSocket client has
\* made handle_message start the initial_memory_update thread.
PushRows ==
    {Memory(t, c, d) : t \in {"long_term", "short_term"},
                       c \in {NoText, <<"m">>, <<"n">>}, d \in {1, 2}}
    \cup {NoMemory}

MemoriesAs(f) == {[f[i] EXCEPT !.id = i] : i \in {j \in DOMAIN f : f[j] # NoMemory}}

InitPush ==
    /\ now = 2
    /\ storage = "on"
    /\ messages = {}
    /\ cache = EmptyCache
    /\ last_message_id = 0
    /\ message_counter = 0
    /\ memgen \in BOOLEAN
    /\ background_tasks = _run_in_background(<< >>, "initial_memory_update")
    /\ handler = [h \in HandlerNames |-> "ok"]
    /\ last = Idle
    /\ turn = NoTurn
    /\ turns = << >>
    /\ conn = {ClientStore}
    /\ schema = "latest"
    /\ db_version = << CURRENT_DB_VERSION >>
    /\ memories \in {MemoriesAs(f) : f \in [{1, 2} -> PushRows]}
    /\ memory_seq = 2
    /\ reply = NoReply
    /\ running = TRUE
    /\ threads = << Thread("initial_memory_update", TRUE) >>
    /\ session_config = << >>
    /\ remote = << >>
    /\ summary = NotAsked
    /\ caller = NoCall
    /\ counted = 0
    /\ launched = 0
    /\ ServerApart /\ StopApart /\ SendApart /\ SocketApart /\ WireApart /\ TxnApart
    /\ agent_id \in {NoText, <<"a", "g">>}
    /\ success = NotSent

NextPush ==
    \/ \E i \in Live, sent \in Sent : _send_memory_update(i, sent)
    \/ TaskEnds

SpecPush == InitPush /\ [][NextPush]_vars

\* The socket client.  A client as constructed, its caller's thread idle; the
\* caller connects, sends and disconnects while the service comes and goes and
\* connections break.
Threads == 1..Len(procs)

InitSocket ==
    /\ TicosClient
    /\ memgen = FALSE
    /\ ServerApart /\ StopApart /\ SendApart /\ WireApart /\ PushApart /\ TxnApart
    /\ client = NewClient
    /\ procs = << Proc("app", "idle") >>
    /\ transport \in {"up", "down"}

\* a step of thread t inside the method it is running
StepOf(t) ==
    /\ t \in Threads
    /\ \/ _check_connection(t)
       \/ connect_locked(t)
       \/ _start_reconnect_thread(t)
       \/ disconnect_joins(t)
       \/ disconnect_locked(t)
       \/ \E detects \in BOOLEAN : _receive_loop(t, detects)
       \/ receive_cleanup(t)
       \/ receive_decides(t)
       \/ _reconnect_loop(t)
       \/ reconnect_wakes(t)
       \/ reconnect_attempt(t)
       \/ reconnect_ends(t)

ThreadStep ==
    \/ \E t \in Threads : _check_connection(t)
    \/ \E t \in Threads : connect_locked(t)
    \/ \E t \in Threads : _start_reconnect_thread(t)
    \/ \E t \in Threads : disconnect_joins(t)
    \/ \E t \in Threads : disconnect_locked(t)
    \/ \E t \in Threads, detects \in BOOLEAN : _receive_loop(t, detects)
    \/ \E t \in Threads : receive_cleanup(t)
    \/ \E t \in Threads : receive_decides(t)
    \/ \E t \in Threads : _reconnect_loop(t)
    \/ \E t \in Threads : reconnect_wakes(t)
    \/ \E t \in Threads : reconnect_attempt(t)
    \/ \E t \in Threads : reconnect_ends(t)

NextSocket ==
    \/ \E t \in Threads, auto_reconnect, detects \in BOOLEAN : connect(t, auto_reconnect, detects)
    \/ \E t \in Threads, detects, goes \in BOOLEAN : send_message(t, detects, goes)
    \/ \E t \in Threads : disconnect(t)
    \/ \E t \in Threads : _check_connection(t)
    \/ \E t \in Threads : connect_locked(t)
    \/ \E t \in Threads : _start_reconnect_thread(t)
    \/ \E t \in Threads : disconnect_joins(t)
    \/ \E t \in Threads : disconnect_locked(t)
    \/ \E t \in Threads, detects \in BOOLEAN : _receive_loop(t, detects)
    \/ \E t \in Threads : receive_cleanup(t)
    \/ \E t \in Threads : receive_decides(t)
    \/ \E t \in Threads : _reconnect_loop(t)
    \/ \E t \in Threads : reconnect_wakes(t)
    \/ \E t \in Threads : reconnect_attempt(t)
    \/ \E t \in Threads : reconnect_ends(t)
    \/ Breaks
    \/ ServiceTurns

SpecSocket == InitSocket /\ [][NextSocket]_vars

\* every thread that can take a step takes one in the end
FairSocket == SpecSocket /\ WF_vars(ThreadStep)

\* every thread that can take a step of its method is scheduled in the end
FairThreads == SpecSocket /\ \A t \in 1..MaxThreads : WF_vars(StepOf(t))

StoreIds == {1, 2, 3}
Contents == {<<"a">>, <<"a", "b">>, <<"a", ".">>}
Stamps == {1, 2}

StoreMessages ==
    {Message(i, "user", c, "U", Len(c)) : i \in StoreIds, c \in Contents}
    \cup {Message(i, "assistant", c, NoItem, Len(c)) : i \in StoreIds, c \in Contents}

InitMessages ==
    /\ now = 1
    /\ storage = "none"
    /\ messages = {}
    /\ cache = EmptyCache
    /\ last_message_id = 0
    /\ message_counter = 0
    /\ memgen = FALSE
    /\ background_tasks = << >>
    /\ handler = [h \in HandlerNames |-> "none"]
    /\ last = Idle
    /\ turn = NoTurn
    /\ turns = << >>
    /\ conn = {ClientStore}
    /\ schema = "latest"
    /\ db_version = << CURRENT_DB_VERSION >>
    /\ memories = {}
    /\ memory_seq = 0
    /\ reply = NoReply
    /\ running = FALSE
    /\ threads = << >>
    /\ session_config = << >>
    /\ remote = << >>
    /\ summary = NotAsked
    /\ caller = NoCall
    /\ counted = 0
    /\ launched = 0
    /\ Apart

NextMessages ==
    \/ \E m \in StoreMessages : SaveMessage(ClientStore, m)
    \/ \E i \in StoreIds : GetMessage(ClientStore, i)
    \/ \E m \in StoreMessages : UpdateMessage(ClientStore, m.id, m)
    \/ \E i \in StoreIds : DeleteMessage(ClientStore, i)
    \/ \E i \in {"U", "V"} : GetMessageByItemId(ClientStore, i)

SpecMessages == InitMessages /\ [][NextMessages]_vars

\* Both tables, paging, closing and reopening.  One store instance on a new
\* database file; every operation may be called at any time, open or closed.
PlainMessages == {Message(i, "user", <<"a">>, "U", d) : i \in StoreIds, d \in Stamps}
MemoryInputs == {Memory("long_term", <<"s">>, d) : d \in Stamps}
MemoryIds == 1..MaxMemories
Offsets == {0, 1, 2}
Limits == {1, 2}

InitStore == Constructed /\ memgen = FALSE

NextStore ==
    \/ initialize(ClientStore)
    \/ close(ClientStore)
    \/ \E m \in PlainMessages : SaveMessage(ClientStore, m)
    \/ \E i \in StoreIds : GetMessage(ClientStore, i)
    \/ \E m \in PlainMessages : UpdateMessage(ClientStore, m.id, m)
    \/ \E i \in StoreIds : DeleteMessage(ClientStore, i)
    \/ \E o \in Offsets, l \in Limits, d \in BOOLEAN : GetMessages(ClientStore, o, l, d)
    \/ GetMessageByItemId(ClientStore, "U")
    \/ \E m \in MemoryInputs : SaveMemory(ClientStore, m)
    \/ \E i \in MemoryIds : GetMemory(ClientStore, i)
    \/ \E i \in MemoryIds, m \in MemoryInputs : UpdateMemory(ClientStore, i, m)
    \/ \E i \in MemoryIds : DeleteMemory(ClientStore, i)
    \/ GetLatestMemory(ClientStore)
    \/ \E o \in Offsets, l \in Limits, d \in BOOLEAN : GetMemories(ClientStore, o, l, d)

SpecStore == InitStore /\ [][NextStore]_vars

\* Initialization.  The database file is new, or exists without tables, or was
\* written by a version before the user_id columns (with or without a message);
\* two store instances are initialized, used and closed in any order.
LegacyMessage == Message(1, "user", <<"a">>, "U", 1)

InitInit ==
    /\ now = 1
    /\ storage = "none"
    /\ schema \in {"absent", "empty", "legacy"}
    /\ messages \in (IF schema = "legacy" THEN {{}, {LegacyMessage}} ELSE {{}})
    /\ cache = EmptyCache
    /\ last_message_id = 0
    /\ message_counter = 0
    /\ memgen = FALSE
    /\ background_tasks = << >>
    /\ handler = [h \in HandlerNames |-> "none"]
    /\ last = Idle
    /\ turn = NoTurn
    /\ turns = << >>
    /\ conn = {}
    /\ db_version = << >>
    /\ memories = {}
    /\ memory_seq = 0
    /\ reply = NoReply
    /\ running = FALSE
    /\ threads = << >>
    /\ session_config = << >>
    /\ remote = << >>
    /\ summary = NotAsked
    /\ caller = NoCall
    /\ counted = 0
    /\ launched = 0
    /\ Apart

NextInit ==
    \/ \E s \in Instances : initialize(s)
    \/ \E s \in Instances, point \in {"half", "latest"} : initialize_interrupted(s, point)
    \/ \E s \in Instances : close(s)
    \/ \E s \in Instances, d \in Stamps : SaveMessage(s, Message(2, "assistant", <<"a">>, NoItem, d))
    \/ \E s \in Instances : DeleteMessage(s, 1)
    \/ \E s \in Instances : SaveMemory(s, Memory("long_term", <<"s">>, 1))

SpecInit == InitInit /\ [][NextInit]_vars

\* Stopping.  The client is set up as for the memory pipeline and is running, its
\* server started or never made, with up to MaxInFlight registered background
\* threads at the top of their targets; the application calls stop() while the
\* threads run.
InFlight ==
    UNION {[1..n -> {"memory_generation", "initial_memory_update"}] : n \in 0..MaxInFlight}

Serving == [UnifiedServer(1) EXCEPT !.thread = "serving", !._server = "started"]

InitStop ==
    /\ now = 1
    /\ storage = "on"
    /\ messages = {}
    /\ cache = EmptyCache
    /\ last_message_id = 0
    /\ message_counter = 0
    /\ memgen = TRUE
    /\ background_tasks \in InFlight
    /\ handler = [h \in HandlerNames |-> "ok"]
    /\ last = Idle
    /\ turn = NoTurn
    /\ turns = << >>
    /\ conn = {ClientStore}
    /\ schema = "latest"
    /\ db_version = << CURRENT_DB_VERSION >>
    /\ memories = {}
    /\ memory_seq = 0
    /\ reply = NoReply
    /\ running = TRUE
    /\ threads = [i \in DOMAIN background_tasks |-> Thread(background_tasks[i], TRUE)]
    /\ session_config = << >>
    /\ remote = << >>
    /\ summary = NotAsked
    /\ caller = NoCall
    /\ counted = 0
    /\ launched = 0
    /\ \/ server = 1 /\ servers = << Serving >>
       \/ server = 0 /\ servers = << >>
    /\ starting = [pc |-> "idle", ret |-> IF server = 0 THEN << >> ELSE << TRUE >>]
    /\ health = << >>
    /\ stopping = [pc |-> "idle", tasks |-> << >>, waited |-> << >>]
    /\ SendApart /\ SocketApart /\ WireApart /\ PushApart /\ TxnApart

NextStop ==
    \/ stop_begins
    \/ stop_joins_server
    \/ stop_collects
    \/ stop_joins
    \/ stop_cleans
    \/ \E n \in DOMAIN servers : run_exits(n)
    \/ \E i \in Live : update_session_config_messages(i)
    \/ \E i \in Live : generate_memory(i)
    \/ \E i \in Live, out \in Summaries : summarize_conversation(i, out)
    \/ \E i \in Live, sent \in Sent : _send_memory_update(i, sent)

SpecStop == InitStop /\ [][NextStop]_vars

\* Message ids.  A client as constructed issues ids while the wall clock, read
\* at each call, stays, advances or goes back.
InitIds ==
    /\ TicosClient
    /\ memgen = FALSE
    /\ Apart

NextIds ==
    \/ \E t \in 1..MaxSecond : ClockSet(t)
    \/ GenerateMessageId

SpecIds == InitIds /\ [][NextIds]_vars

\* The wire.  On an established connection the messages written are those of
\* send_message(func, id) with func a letter outside ASCII, a quote and a plain
\* letter, or nothing; the receiving side reads what arrives in reads of any size,
\* and the connection may break after any number of bytes.
Funcs == {<< "U+00E9" >>, << "\"", "a" >>, << >>}
MessageIds == {<< "1" >>}

InitWire ==
    /\ TicosClient
    /\ memgen = FALSE
    /\ ServerApart /\ StopApart /\ SendApart /\ SocketApart /\ PushApart /\ TxnApart
    /\ wire = [data |-> << >>, closed |-> FALSE]
    /\ rx = AwaitLength(0)
    /\ delivered = << >>
    /\ framed = << >>

NextWire ==
    \/ \E func \in Funcs, id \in MessageIds : sendall(func, id)
    \/ \E n \in 0..Len(wire.data) : StreamEnds(n)
    \/ \E k \in 1..Len(wire.data) : recv(k)
    \/ recv_nothing

SpecWire == InitWire /\ [][NextWire]_vars

\* Sending.  A client as constructed, without a server or with the server of a
\* start() that is about to see it up; WebSocket clients come and go, and the
\* application calls send_message with a string, None, a dict with a name and a
\* dict without one.
Arguments ==
    {Argument("str", Absent), Argument("NoneType", Absent), Argument("dict", "motion"),
     Argument("dict", Absent)}

InitSend ==
    /\ TicosClient
    /\ memgen = FALSE
    /\ \/ /\ server = 0
          /\ servers = << >>
          /\ starting = [pc |-> "idle", ret |-> << >>]
       \/ /\ server = 1
          /\ servers = << Serving >>
          /\ starting = [pc |-> "check3", ret |-> << >>]
    /\ health = << >>
    /\ issued = << >>
    /\ broadcast = << >>
    /\ answer = "none"
    /\ StopApart /\ SocketApart /\ WireApart /\ PushApart /\ TxnApart

NextSend ==
    \/ start_check3
    \/ _register_websocket
    \/ _unregister_websocket
    \/ \E message \in Arguments, reached \in 0..MaxConnections :
           SendMessage(message, reached)

SpecSend == InitSend /\ [][NextSend]_vars

\* Starting.  A client as constructed, with or without a message handler; the
\* application calls start(), again after it has returned, while each server
\* thread runs at its own pace.
InitStart ==
    /\ now = 1
    /\ storage = "none"
    /\ messages = {}
    /\ cache = EmptyCache
    /\ last_message_id = 0
    /\ message_counter = 0
    /\ memgen = FALSE
    /\ background_tasks = << >>
    /\ handler \in {[h \in HandlerNames |-> IF h = "message" THEN mode ELSE "none"] :
                        mode \in {"none", "ok"}}
    /\ last = Idle
    /\ turn = NoTurn
    /\ turns = << >>
    /\ conn = {}
    /\ schema = "absent"
    /\ db_version = << >>
    /\ memories = {}
    /\ memory_seq = 0
    /\ reply = NoReply
    /\ running = FALSE
    /\ threads = << >>
    /\ session_config = << >>
    /\ remote = << >>
    /\ summary = NotAsked
    /\ caller = NoCall
    /\ counted = 0
    /\ launched = 0
    /\ server = 0
    /\ servers = << >>
    /\ starting = [pc |-> "idle", ret |-> << >>]
    /\ health = << >>
    /\ StopApart /\ SendApart /\ SocketApart /\ WireApart /\ PushApart /\ TxnApart

NextStart ==
    \/ start_begins
    \/ start_check1
    \/ start_check2
    \/ start_check3
    \/ \E n \in DOMAIN servers, raises \in BOOLEAN : _serve_uvicorn(n, raises)
    \/ \E n \in DOMAIN servers, outcome \in Outcomes : serve(n, outcome)
    \/ \E n \in DOMAIN servers : run_sets_error(n)
    \/ \E n \in DOMAIN servers : run_notifies(n)

SpecStart == InitStart /\ [][NextStart]_vars

-----------------------------------------------------------------------------
(* Properties of the reassembly of assistant transcripts (under Spec) *)

\* the step just taken delivered an envelope of this type to handle_message
Delivered(type) == last'.via # "none" /\ last'.env.type = type

AssistantRows(rows) == {m \in rows : m.role = "assistant"}
RowsOfItem(rows, item_id) == {m \in AssistantRows(rows) : m.item_id = item_id}

\* C1: with storage enabled, when response.done ends a run of deltas handled for
\* item A, exactly one assistant Message with item_id A is added to the store, its
\* content the concatenation of the run's deltas in arrival order, and nothing
\* else in the store changes (so a store that held none for A holds exactly one)
C1_DoneStoresConcatenation ==
    [][ (Delivered("response.done") /\ storage = "on" /\ turn # NoTurn) =>
            \E m \in messages' \ messages :
                /\ messages' = messages \cup {m}
                /\ m.role = "assistant"
                /\ m.item_id = turn.item_id
                /\ m.content = turn.text
                /\ Cardinality(RowsOfItem(messages', turn.item_id))
                       = Cardinality(RowsOfItem(messages, turn.item_id)) + 1 ]_vars

\* deltas "a" then "b" for item A and a response.done: one Message "ab" for A
C1_Witness ==
    /\ last.env.type = "response.done"
    /\ turns = << [item_id |-> "A", text |-> <<"a", "b">>] >>
    /\ \E m \in messages : m.item_id = "A" /\ m.content = <<"a", "b">>
    /\ Cardinality(RowsOfItem(messages, "A")) = 1

\* the i-th run that ended is the i-th assistant row by id, with the run's text
RunsMatchRows ==
    /\ Cardinality(AssistantRows(messages)) = Len(turns)
    /\ \A i \in 1..Len(turns) :
           \E m \in AssistantRows(messages) :
               /\ Cardinality({q \in AssistantRows(messages) : q.id < m.id}) = i - 1
               /\ m.item_id = turns[i].item_id
               /\ m.content = turns[i].text

\* C2: a delta for item B arriving while the slot holds a draft of another item A
\* stores A's draft with A's accumulated text and leaves the slot holding a new
\* draft of B whose text is that delta alone and whose id differs from every
\* stored id; every run that ended is a Message of its own carrying exactly the
\* text of its run
C2_SwitchFlushesFirst ==
    [][ /\ ( /\ Delivered("response.audio_transcript.delta")
             /\ HandledDelta(last'.env)
             /\ turn # NoTurn
             /\ turn.item_id # last'.env.item_id ) =>
            /\ \E m \in messages' \ messages :
                   /\ messages' = messages \cup {m}
                   /\ m.item_id = turn.item_id
                   /\ m.content = turn.text
                   /\ m.id = cache.message.id
            /\ cache'.item_id = last'.env.item_id
            /\ cache'.content = last'.env.text
            /\ cache'.message.item_id = last'.env.item_id
            /\ cache'.message.id \notin Ids(messages')
        /\ RunsMatchRows' ]_vars

\* "a" for A, then "b" for B, then response.done: two Messages, A "a" and B "b"
C2_Witness ==
    /\ turns = << [item_id |-> "A", text |-> <<"a">>], [item_id |-> "B", text |-> <<"b">>] >>
    /\ \E m, q \in messages :
           /\ m.id # q.id
           /\ m.item_id = "A" /\ m.content = <<"a">>
           /\ q.item_id = "B" /\ q.content = <<"b">>

\* C3: after response.done, whatever item id the event itself carries, the slot is
\* empty and the draft that was pending is in the store with its accumulated text
C3_DoneEmptiesSlot ==
    [][ Delivered("response.done") =>
            /\ cache' = EmptyCache
            /\ cache.message # NoMessage =>
                   \E m \in messages' :
                       /\ m.id = cache.message.id
                       /\ m.item_id = cache.item_id
                       /\ m.content = cache.content
                       /\ m.role = "assistant" ]_vars

\* a response.done carrying item id B has flushed a draft of item A
C3_Witness ==
    /\ last.env = Done("B")
    /\ cache = EmptyCache
    /\ turns # << >>
    /\ turns[Len(turns)].item_id = "A"
    /\ \E m \in messages : m.item_id = "A" /\ m.content = turns[Len(turns)].text

-----------------------------------------------------------------------------
(* Properties of user transcripts (under Spec) *)

IsAudioInput(e) == e.itype = "message" /\ e.role = "user" /\ e.audio

\* C4: conversation.item.created for a user message with an input_audio part adds
\* exactly one Message, with empty content and the item's id; a transcription-
\* completed event for an item id some stored Message has overwrites the content of
\* a Message with that item id, whose id stays; for an item id no stored Message
\* has it leaves the store as it is and the dispatch goes on
C4_PlaceholderThenTranscript ==
    [][ /\ (Delivered("conversation.item.created") /\ IsAudioInput(last'.env)) =>
               \E m \in messages' \ messages :
                   /\ messages' = messages \cup {m}
                   /\ m.id \notin Ids(messages)
                   /\ m.role = "user"
                   /\ m.content = NoText
                   /\ m.item_id = last'.env.item_id
        /\ Delivered("conversation.item.input_audio_transcription.completed") =>
               IF \E m \in messages : m.item_id = last'.env.item_id
               THEN \E m \in messages :
                        /\ m.item_id = last'.env.item_id
                        /\ [m EXCEPT !.content = last'.env.text] \in messages'
               ELSE /\ messages' = messages
                    /\ ~last'.raised /\ ~last'.aborted
                    /\ last'.ret = Registered("message") ]_vars

\* the placeholder of item U now carries the transcript "ab"
C4_Witness ==
    /\ last.env = Completed("U", <<"a", "b">>)
    /\ \E m \in messages :
           m.role = "user" /\ m.item_id = "U" /\ m.content = <<"a", "b">>

-----------------------------------------------------------------------------
(* Properties of the function-call dispatch *)

\* the last envelope reached handle_message and is a completed function call
IsFunctionCall(e) == e.type = "response.output_item.done" /\ e.itype = "function_call"
Dispatched == last.via = "direct" \/ (last.via = "websocket" /\ _should_process_message(last.env))
DispatchedCall(name) == Dispatched /\ IsFunctionCall(last.env) /\ last.env.name = name

\* the calls of handler h made for the last envelope
CallsOf(h) == SelectSeq(last.calls, LAMBDA c : c.h = h)

\* the argument object a function call's arguments text stands for: the object it
\* encodes, the empty object when the text is absent or malformed
Payload(e) ==
    IF e.arguments = ArgWave THEN {<<"action", "wave">>} ELSE {}

\* C5 as stated: for the name motion the emotion and generic handlers are never
\* invoked, for the name emotion the motion and generic handlers are never
\* invoked, whichever handlers are registered
C5_Original ==
    /\ DispatchedCall("motion") => CallsOf("emotion") = << >> /\ CallsOf("function_call") = << >>
    /\ DispatchedCall("emotion") => CallsOf("motion") = << >> /\ CallsOf("function_call") = << >>

\* C5 as amended: for the name motion the emotion handler is never invoked, for
\* the name emotion the motion handler is never invoked, and the generic handler
\* is invoked for these names only when the named handler is not registered
C5_SpecificHandlerOrFallback ==
    /\ DispatchedCall("motion") =>
           /\ CallsOf("emotion") = << >>
           /\ Len(CallsOf("motion")) <= 1
           /\ CallsOf("function_call") # << >> => ~Registered("motion")
    /\ DispatchedCall("emotion") =>
           /\ CallsOf("motion") = << >>
           /\ Len(CallsOf("emotion")) <= 1
           /\ CallsOf("function_call") # << >> => ~Registered("emotion")

\* a motion call went to the motion handler alone, the other two being registered
C5_Witness ==
    /\ DispatchedCall("motion")
    /\ Registered("motion") /\ Registered("emotion") /\ Registered("function_call")
    /\ Len(CallsOf("motion")) = 1
    /\ CallsOf("emotion") = << >> /\ CallsOf("function_call") = << >>

\* C6: motion_and_emotion with the motion and emotion handlers registered calls
\* each of them exactly once, both with the parsed arguments, and does not call
\* the generic handler
C6_BothHandlersOnce ==
    (DispatchedCall("motion_and_emotion") /\ Registered("motion") /\ Registered("emotion")) =>
        /\ Len(CallsOf("motion")) = 1
        /\ Len(CallsOf("emotion")) = 1
        /\ CallsOf("motion")[1].args = << Payload(last.env) >>
        /\ CallsOf("emotion")[1].args = CallsOf("motion")[1].args
        /\ CallsOf("function_call") = << >>

C6_Witness ==
    /\ DispatchedCall("motion_and_emotion")
    /\ last.env.arguments = ArgWave
    /\ Registered("function_call")
    /\ Len(CallsOf("motion")) = 1 /\ Len(CallsOf("emotion")) = 1
    /\ CallsOf("emotion")[1].args = << {<<"action", "wave">>} >>

\* C7: a function call named none of motion, emotion, motion_and_emotion calls the
\* generic handler exactly once with (name, arguments) when one is registered and
\* no function handler when none is; the motion and emotion handlers are not called
C7_OtherNamesGoGeneric ==
    \A name \in FunctionNames \ {"motion", "emotion", "motion_and_emotion"} :
        DispatchedCall(name) =>
            /\ CallsOf("motion") = << >>
            /\ CallsOf("emotion") = << >>
            /\ IF Registered("function_call")
               THEN /\ Len(CallsOf("function_call")) = 1
                    /\ CallsOf("function_call")[1].args = << name, Payload(last.env) >>
               ELSE CallsOf("function_call") = << >>

C7_Witness ==
    /\ DispatchedCall("dance")
    /\ Registered("motion") /\ Registered("emotion")
    /\ Len(CallsOf("function_call")) = 1
    /\ CallsOf("function_call")[1].args = << "dance", {<<"action", "wave">>} >>

\* C9: a function call whose arguments text is not valid JSON is dispatched like
\* any other: the handler its name resolves to is called, with the empty object
C9_MalformedArgumentsAreEmpty ==
    (Dispatched /\ IsFunctionCall(last.env) /\ last.env.arguments = ArgBad) =>
        /\ ~last.raised
        /\ \A h \in {"motion", "emotion"} :
               \A i \in 1..Len(CallsOf(h)) : CallsOf(h)[i].args = << {} >>
        /\ \A i \in 1..Len(CallsOf("function_call")) :
               CallsOf("function_call")[i].args = << last.env.name, {} >>
        /\ (last.env.name \in {"motion", "motion_and_emotion"} /\ Registered("motion"))
               => Len(CallsOf("motion")) = 1
        /\ (last.env.name \in {"emotion", "motion_and_emotion"} /\ Registered("emotion"))
               => Len(CallsOf("emotion")) = 1
        /\ (last.env.name = "dance" /\ Registered("function_call"))
               => Len(CallsOf("function_call")) = 1
        /\ (CallsOf("motion") \o CallsOf("emotion") \o CallsOf("function_call") # << >>)
               => last.ret = TRUE

C9_Witness ==
    /\ DispatchedCall("motion")
    /\ last.env.arguments = ArgBad
    /\ Len(CallsOf("motion")) = 1
    /\ CallsOf("motion")[1].args = << {} >>
    /\ last.ret = TRUE

-----------------------------------------------------------------------------
(* Properties of the result of handle_message (under SpecFaulty) *)

\* the calls the dispatch made: those of the message, motion, emotion and generic
\* function-call handlers
DispatchCalls == SelectSeq(last.calls, LAMBDA c : c.h # "conversation")
ReturnedNormally(c) == handler[c.h] = "ok"

-----------------------------------------------------------------------------
(* Properties of the inbound filter (under SpecInbound) *)

\* the ten event types the allow-list is stated to hold
ListedTypes ==
    { "conversation.created", "conversation.item.created", "response.created",
      "response.done", "response.output_item.done", "response.audio_transcript.delta",
      "response.audio.delta", "conversation.item.input_audio_transcription.completed",
      "response.video.done", "health.status" }

-----------------------------------------------------------------------------
(* Properties of the message table (under SpecMessages) *)

\* C11: after save_message(m) on an open store get_message(m.id) returns a Message
\* equal to m in every field, exactly one row has that id, every row of another id
\* is as it was, and saving m once more would leave the table as it is
C11_SaveIsIdempotentUpsert ==
    [][ (reply'.op = "save_message" /\ reply'.ret = TRUE) =>
            LET m == reply'.arg.message
            IN  /\ get_message(messages', m.id) = m
                /\ Cardinality({r \in messages' : r.id = m.id}) = 1
                /\ {r \in messages' : r.id # m.id} = {r \in messages : r.id # m.id}
                /\ save_message(messages', m) = messages' ]_vars

\* a message was saved over an id in a table of three rows
C11_Witness ==
    /\ reply.op = "save_message"
    /\ Cardinality(messages) = 3
    /\ reply.arg.message \in messages
    /\ reply.arg.message.content = <<"a", "b">>

\* the text without one trailing sentence punctuation mark
Trimmed(t) == IF t # << >> /\ t[Len(t)] \in {".", ",", "?", "!"} THEN SubSeq(t, 1, Len(t) - 1) ELSE t

\* a is a prefix of b
Prefix(a, b) == Len(a) <= Len(b) /\ \A i \in 1..Len(a) : a[i] = b[i]

\* the stored messages with an id below id, and the one of them with the largest
Lower(rows, id) == {r \in rows : r.id < id}
NextLower(rows, id) == CHOOSE r \in Lower(rows, id) : \A q \in Lower(rows, id) : q.id <= r.id

\* the update of a user message met a user message at the next-lower id
UserAfterUser ==
    /\ reply'.op = "update_message"
    /\ reply'.arg.message.role = "user"
    /\ Lower(messages, reply'.arg.message_id) # {}
    /\ NextLower(messages, reply'.arg.message_id).role = "user"

\* C12 as stated: when update_message is applied to a user message and the message
\* with the next-lower id is a user message and, trailing punctuation aside, one
\* text is a prefix of the other, the preceding message is deleted
C12_Original ==
    [][ UserAfterUser =>
            LET prev == NextLower(messages, reply'.arg.message_id)
                cur == Trimmed(reply'.arg.message.content)
            IN  (Prefix(cur, Trimmed(prev.content)) \/ Prefix(Trimmed(prev.content), cur))
                    => prev.id \notin Ids(messages') ]_vars

\* C12 as amended: the preceding user message is deleted when, trailing punctuation
\* aside, one text is a prefix of the other and the two texts differ, and is kept
\* when they are equal; "a" at id 1 and an update of the user message at id 2 to
\* "ab" leave one user message, with content "ab"
C12_ProperPrefixDeletesPrevious ==
    [][ UserAfterUser =>
            LET id == reply'.arg.message_id
                m == reply'.arg.message
                prev == NextLower(messages, id)
                cur == Trimmed(m.content)
                old == Trimmed(prev.content)
            IN  /\ ((Prefix(cur, old) \/ Prefix(old, cur)) /\ cur # old)
                       => prev.id \notin Ids(messages')
                /\ cur = old => prev \in messages'
                /\ ( /\ {r.id : r \in messages} = {1, 2}
                     /\ id = 2
                     /\ prev.content = <<"a">>
                     /\ m.content = <<"a", "b">> )
                       => messages' = {[m EXCEPT !.id = 2]} ]_vars

\* "a" then "ab": the update of message 2 left it alone in the table
C12_Witness ==
    /\ reply.op = "update_message"
    /\ reply.arg.message_id = 2
    /\ reply.arg.message.content = <<"a", "b">>
    /\ reply.ret = TRUE
    /\ messages = {Message(2, "user", <<"a", "b">>, "U", 2)}

-----------------------------------------------------------------------------
(* Properties of paging, closing and reopening (under SpecStore) *)

\* the rows that come before r, and before or level with r, in the order asked for
Ahead(rows, r, desc) ==
    Cardinality({q \in rows : IF desc THEN q.datetime > r.datetime
                                      ELSE q.datetime < r.datetime})
AheadOrLevel(rows, r, desc) ==
    Cardinality({q \in rows : IF desc THEN q.datetime >= r.datetime
                                      ELSE q.datetime <= r.datetime})

\* page is rows offset+1 .. offset+limit of the table in timestamp order
IsPageOf(page, rows, offset, limit, desc) ==
    /\ Len(page) <= limit
    /\ Len(page) = IF Cardinality(rows) - offset < 0 THEN 0
                   ELSE IF Cardinality(rows) - offset < limit
                        THEN Cardinality(rows) - offset ELSE limit
    /\ \A i \in 1..Len(page) : page[i] \in rows
    /\ \A i, j \in 1..Len(page) : i # j => page[i] # page[j]
    /\ \A i, j \in 1..Len(page) :
           i < j => IF desc THEN page[i].datetime >= page[j].datetime
                            ELSE page[i].datetime <= page[j].datetime
    /\ \A i \in 1..Len(page) :
           /\ Ahead(rows, page[i], desc) <= offset + i - 1
           /\ AheadOrLevel(rows, page[i], desc) >= offset + i

\* C13: on an open store get_messages(offset, limit, desc) returns at most limit
\* messages, those at positions offset .. offset+limit-1 of the table ordered by
\* timestamp, non-increasing with desc and non-decreasing without; get_memories
\* does the same on the memories
C13_PagesAreOrderedSlices ==
    /\ (reply.op = "get_messages" /\ reply.s \in conn) =>
           IsPageOf(reply.ret, messages, reply.arg.offset, reply.arg.limit, reply.arg.desc)
    /\ (reply.op = "get_memories" /\ reply.s \in conn) =>
           IsPageOf(reply.ret, memories, reply.arg.offset, reply.arg.limit, reply.arg.desc)

\* the second and third of three messages in ascending order, two of them level
C13_Witness ==
    /\ reply.op = "get_messages"
    /\ reply.s \in conn
    /\ reply.arg = [offset |-> 1, limit |-> 2, desc |-> FALSE]
    /\ Cardinality(messages) = 3
    /\ Len(reply.ret) = 2
    /\ reply.ret[1].datetime = 1 /\ reply.ret[2].datetime = 2
    /\ \E r \in messages : r \notin {reply.ret[1], reply.ret[2]} /\ r.datetime = 1

\* the operations on the two tables, and the falsy result of each
TableOps ==
    {"save_message", "get_message", "update_message", "delete_message", "get_messages",
     "get_message_by_item_id", "save_memory", "get_memory", "update_memory",
     "delete_memory", "get_latest_memory", "get_memories"}

Falsy(op, ret) ==
    CASE op \in {"save_message", "update_message", "delete_message", "save_memory",
                 "update_memory", "delete_memory"} -> ret = FALSE
      [] op \in {"get_messages", "get_memories"} -> ret = << >>
      [] op \in {"get_message", "get_message_by_item_id"} -> ret = NoMessage
      [] OTHER -> ret = NoMemory

\* C14: an operation on a closed store answers with its falsy or empty result,
\* raises nothing and changes neither table; close on a closed store changes
\* nothing; initialize on a closed store opens it again with the data as it was
C14_ClosedStoreFailsSoftly ==
    [][ reply'.s \notin conn =>
            /\ reply'.op \in TableOps =>
                   /\ Falsy(reply'.op, reply'.ret)
                   /\ ~reply'.raised
                   /\ UNCHANGED << messages, memories, memory_seq, schema, db_version, conn >>
            /\ reply'.op = "close" =>
                   /\ ~reply'.raised
                   /\ UNCHANGED << messages, memories, memory_seq, schema, db_version, conn >>
            /\ (reply'.op = "initialize" /\ db_version # << >>) =>
                   /\ ~reply'.raised
                   /\ reply'.s \in conn'
                   /\ UNCHANGED << messages, memories, memory_seq >> ]_vars

\* get_messages on a closed store that holds messages and memories returned nothing
C14_Witness ==
    /\ reply.op = "get_messages"
    /\ reply.s \notin conn
    /\ reply.ret = << >>
    /\ messages # {} /\ memories # {}
    /\ db_version # << >>

-----------------------------------------------------------------------------
(* Properties of initialization (under SpecInit) *)

\* C15: initialize on a new database file creates the latest schema and writes one
\* version row, the current version, without migrating; initialize on a database
\* that has a version row, by the same or by another instance, raises nothing,
\* adds no version row and leaves the schema, the version and the data as they were
C15_InitializeIsIdempotent ==
    [][ reply'.op = "initialize" =>
            /\ schema = "absent" =>
                   /\ ~reply'.raised
                   /\ ~reply'.arg.migrated
                   /\ schema' = "latest"
                   /\ db_version' = << CURRENT_DB_VERSION >>
                   /\ reply'.s \in conn'
            /\ db_version # << >> =>
                   /\ ~reply'.raised
                   /\ ~reply'.arg.migrated
                   /\ db_version' = db_version
                   /\ schema' = schema
                   /\ reply'.s \in conn'
                   /\ UNCHANGED << messages, memories, memory_seq >> ]_vars

\* a second instance was initialized on a database the first had created and filled
C15_Witness ==
    /\ reply.op = "initialize"
    /\ reply.s = 2
    /\ conn = {1, 2}
    /\ db_version = << CURRENT_DB_VERSION >>
    /\ messages # {} /\ memories # {}

\* the file is a store written before the version table, whole or part-migrated
OlderStore == schema \in {"legacy", "half", "latest"} /\ current_version < CURRENT_DB_VERSION

\* the order in which the migration moves a file
SchemaRank(sch) == CASE sch = "legacy" -> 0 [] sch = "half" -> 1 [] OTHER -> 2

\* C34: reopening a store older than the current version migrates it, each step
\* only if it had not been applied: an initialize stopped at any point of the
\* migration leaves the rows and the version as they were and the schema further
\* along, and initialize run on what it left succeeds, keeps every row and ends
\* with the version stamped current; the stamped versions never decrease
C34_MigrationResumes ==
    /\ [][reply'.op = "interrupted" =>
             /\ UNCHANGED << messages, memories, memory_seq, db_version, conn >>
             /\ SchemaRank(schema') > SchemaRank(schema)]_vars
    /\ [][reply'.op = "initialize" /\ reply'.s \notin conn /\ OlderStore =>
             /\ ~reply'.raised
             /\ reply'.arg.migrated
             /\ reply'.s \in conn'
             /\ schema' = "latest"
             /\ db_version' = Append(db_version, CURRENT_DB_VERSION)
             /\ UNCHANGED << messages, memories, memory_seq >>]_vars
    /\ [][/\ Len(db_version') >= Len(db_version)
          /\ SubSeq(db_version', 1, Len(db_version)) = db_version
          /\ \A i \in 1..Len(db_version') : \A j \in 1..i : db_version'[j] <= db_version'[i]]_vars

\* an initialize was stopped between the two ALTER TABLE statements of a store
\* that holds a message, and the next initialize has migrated the rest
C34_Witness ==
    /\ reply.op = "initialize"
    /\ reply.arg.found = "half"
    /\ reply.arg.migrated
    /\ ~reply.raised
    /\ reply.s \in conn
    /\ schema = "latest"
    /\ current_version = CURRENT_DB_VERSION
    /\ LegacyMessage \in messages

-----------------------------------------------------------------------------
(* Properties of the memory counter (under SpecMemory) *)

\* handle_message is entered with an envelope of this type
Entered(type) == caller = NoCall /\ caller' # NoCall /\ caller'.env.type = type

\* the envelope being entered flushes the assistant draft: response.done with a
\* draft in the slot, or a transcript delta of another item
FlushesDraft ==
    \/ Entered("response.done") /\ HasDraft(cache)
    \/ /\ Entered("response.audio_transcript.delta")
       /\ TruthyText(caller'.env.text) /\ TruthyId(caller'.env.item_id)
       /\ SwitchesItem(cache, caller'.env.item_id)

\* the envelope being entered is a completed user transcription that updates a message
UpdatesTranscript ==
    /\ Entered("conversation.item.input_audio_transcription.completed")
    /\ TruthyId(caller'.env.item_id)
    /\ \E m \in messages : m.item_id = caller'.env.item_id

\* C16 as stated: with client-side memory generation the counter is incremented
\* once when an assistant draft is flushed and once for each completed user
\* transcription that updated a message, and for no other event
C16_CountsEveryCompletedTurn ==
    [][ (caller = NoCall /\ caller' # NoCall) =>
            counted' - counted = IF FlushesDraft \/ UpdatesTranscript THEN 1 ELSE 0 ]_vars

\* what the code does: the counter is incremented once when an assistant draft is
\* flushed, and for no other event
CountsAssistantTurns ==
    [][ (caller = NoCall /\ caller' # NoCall) =>
            counted' - counted = IF FlushesDraft THEN 1 ELSE 0 ]_vars

\* a completed transcription has been stored and nothing has been counted
C16_Witness ==
    /\ caller.env.type = "conversation.item.input_audio_transcription.completed"
    /\ \E m \in messages : m.role = "user" /\ m.content = <<"a">>
    /\ counted = 0

\* a memory_generation thread was started by this step, and no other
StartsMemoryGeneration ==
    /\ background_tasks' = Append(background_tasks, "memory_generation")
    /\ Len(threads') = Len(threads) + 1
    /\ SubSeq(threads', 1, Len(threads)) = threads
    /\ threads'[Len(threads')].name = "memory_generation"
    /\ threads'[Len(threads')].pc = "snapshot"

\* no thread was started by this step
StartsNone ==
    /\ Len(background_tasks') <= Len(background_tasks)
    /\ Len(threads') <= Len(threads)

\* C17: an increment that makes counter * 2 >= context_rounds resets the counter to
\* zero and starts exactly one memory_generation thread, and no other step starts
\* one; so always 0 <= counter and counter * 2 < context_rounds, and k counted
\* turns have started floor(k / ceil(context_rounds / 2)) threads
C17_ThresholdResetsAndLaunches ==
    /\ [](/\ 0 <= message_counter
          /\ message_counter * 2 < context_rounds
          /\ launched = counted \div ((context_rounds + 1) \div 2)
          /\ message_counter = counted % ((context_rounds + 1) \div 2))
    /\ [][ IF counted' = counted + 1 /\ (message_counter + 1) * 2 >= context_rounds
           THEN /\ message_counter' = 0
                /\ StartsMemoryGeneration
                /\ launched' = launched + 1
           ELSE /\ StartsNone
                /\ launched' = launched
                /\ message_counter' = message_counter + (counted' - counted) ]_vars

\* two turns were counted, the second reset the counter and started the thread
C17_Witness ==
    /\ counted = 2
    /\ launched = 1
    /\ message_counter = 0
    /\ Len(threads) = 1
    /\ threads[1].name = "memory_generation"

-----------------------------------------------------------------------------
(* Properties of the memory-generation cycle (under SpecMemory) *)

\* the summarizer answers thread i in this step
Answered(i) ==
    /\ Len(threads') = Len(threads)
    /\ threads[i].pc = "summarizing"
    /\ threads'[i].pc # "summarizing"

\* C18: when the summarization call of a cycle fails, no Memory record is written,
\* nothing is sent to the backend, the thread ends its target without calling the
\* summarizer again, and the caller of handle_message and the handlers see nothing
C18_FailedCycleIsSkipped ==
    [][ \A i \in 1..Len(threads) :
            /\ (Answered(i) /\ summary' = NoSummary) =>
                   /\ memories' = memories
                   /\ memory_seq' = memory_seq
                   /\ remote' = remote
                   /\ threads'[i].pc = "done"
                   /\ last'.calls = << >>
                   /\ ~last'.raised
                   /\ caller' = caller
            /\ (threads[i].pc = "done" /\ Len(threads') >= Len(threads)) =>
                   threads'[i].pc = "done" ]_vars

\* a cycle of a running client ended on a failed summarization, with no memory
C18_Witness ==
    /\ running
    /\ memories = {}
    /\ remote = << >>
    /\ summary = NoSummary
    /\ \E i \in 1..Len(threads) :
           threads[i].name = "memory_generation" /\ threads[i].pc = "done"

\* the summarizer answers thread i with text in this step
AnsweredWithText(i) ==
    /\ Answered(i)
    /\ summary' # NoSummary
    /\ summary' # NoText

\* generate_memory returned True in this step: the thread goes on to the push
ReturnsTrue(i) == threads'[i].pc = "push"

\* this step adds one long_term record with this content to the memories
AppendsMemory(content) ==
    \E m \in memories' :
        /\ memories' = memories \cup {m}
        /\ \A q \in memories : q.id # m.id
        /\ m.type = "long_term"
        /\ m.content = content

\* C19 as stated: when the summarization call succeeds one long_term Memory with
\* the returned text is appended, and generate_memory returns True only if that
\* record was written
C19_Original ==
    [][ \A i \in 1..Len(threads) :
            AnsweredWithText(i) =>
                /\ AppendsMemory(summary')
                /\ ReturnsTrue(i) => memories' # memories ]_vars

\* C19 as amended: when the summarizer returns text, generate_memory returns True;
\* one long_term Memory with that text is appended when the client is running and
\* the store is open, and none is written when the client is not running; when
\* the summarizer returns no text generate_memory returns False and writes nothing
C19_SavesOnlyWhileRunning ==
    [][ \A i \in 1..Len(threads) :
            /\ AnsweredWithText(i) =>
                   /\ ReturnsTrue(i)
                   /\ (running /\ ClientStore \in conn) => AppendsMemory(summary')
                   /\ ~running => memories' = memories
            /\ (Answered(i) /\ ~AnsweredWithText(i)) =>
                   /\ ~ReturnsTrue(i)
                   /\ memories' = memories ]_vars

\* a running client saved the summary of a cycle as its first memory
C19_Witness ==
    /\ running
    /\ memories = {[Memory("long_term", <<"s">>, 1) EXCEPT !.id = 1]}
    /\ summary = <<"s">>
    /\ \E i \in 1..Len(threads) : threads[i].pc = "push"

\* C20 as stated: the summarization call of a thread begins only after the
\* handle_message call that started the thread has returned
C20_Original ==
    \A i \in 1..Len(threads) :
        (threads[i].name = "memory_generation"
            /\ threads[i].pc \in {"summarizing", "push", "done"}) => threads[i].returned

\* C20 as amended: the steps of a memory-generation cycle are taken by the thread
\* and never by handle_message, which starts the thread and can return whatever
\* the thread is doing, also while the summarizer has not answered; the
\* summarization call may begin before handle_message has returned
C20_DispatchNeverWaits ==
    /\ [](caller # NoCall => ENABLED handle_message_returns)
    /\ [][ (caller' # caller) =>
               /\ \A i \in 1..Len(threads) : threads'[i].pc = threads[i].pc
               /\ summary' = NotAsked
               /\ \A i \in (Len(threads) + 1)..Len(threads') : threads'[i].pc = "snapshot"
               /\ UNCHANGED << memories, session_config, remote >> ]_vars

\* the call that started a thread has not returned and the thread is waiting for
\* the summarizer
C20_Witness ==
    /\ caller # NoCall
    /\ \E i \in 1..Len(threads) :
           threads[i].pc = "summarizing" /\ ~threads[i].returned


-----------------------------------------------------------------------------
(* The session snapshot *)

Entry(m) == [role |-> m.role, content |-> m.content]

\* a is b with some entries left out
RECURSIVE IsSubList(_, _)
IsSubList(a, b) ==
    IF a = << >> THEN TRUE
    ELSE IF b = << >> THEN FALSE
    ELSE IF a[1] = b[1] THEN IsSubList(Tail(a), Tail(b))
    ELSE IsSubList(a, Tail(b))

\* the windows of the table: its context_rounds most recent messages, oldest first
Windows(rows) ==
    {[k \in 1..Len(page) |-> page[Len(page) + 1 - k]] :
         page \in {q \in {Page(p, 0, context_rounds) : p \in Orderings(rows)} :
                       IsPageOf(q, rows, 0, context_rounds, TRUE)}}

\* the position of the last assistant entry with text in w, 0 without one
LastAssistant(w) ==
    LET at == {k \in 1..Len(w) : w[k].role = "assistant" /\ w[k].content # NoText}
    IN  IF at = {} THEN 0 ELSE CHOOSE k \in at : \A j \in at : j <= k

SnapshotWritten == session_config' # session_config \/ last' # last

\* C21: the list update_session_config_messages writes is empty or ends with an
\* assistant entry, and it is an order-preserving sub-list of the context_rounds
\* most recent stored messages taken oldest first: their entries with text up to
\* the last assistant entry
C21_SnapshotEndsWithAssistant ==
    [][SnapshotWritten =>
           \E w \in Windows(messages) :
               LET entries == [k \in 1..Len(w) |-> Entry(w[k])]
                   written == session_config'
               IN  /\ written = << >> \/ written[Len(written)].role = "assistant"
                   /\ IsSubList(written, entries)
                   /\ written = SelectSeq(SubSeq(entries, 1, LastAssistant(entries)),
                                          LAMBDA x : x.content # NoText)]_vars

\* a snapshot of two entries taken from a table of more than context_rounds
\* messages whose most recent one is a user's with text
C21_Witness ==
    /\ Len(session_config) = 2
    /\ Cardinality(messages) > context_rounds
    /\ \E m \in messages :
           /\ m.role = "user" /\ m.content # NoText
           /\ \A q \in messages \ {m} : q.datetime < m.datetime

-----------------------------------------------------------------------------
(* The memory push *)

LatestOf(rows) == {r \in rows : \A q \in rows : q.datetime <= r.datetime}
LongTerm(rows) == {r \in rows : r.type = "long_term"}

\* a thread runs _send_memory_update in this step
Pushes ==
    \E i \in 1..Len(threads) :
        /\ threads[i].pc = "push"
        /\ Len(threads') = Len(threads)
        /\ threads'[i].pc = "done"

\* the turns the backend receives in this step
TurnsSent == IF remote' = remote THEN << >> ELSE remote'[Len(remote')]

IsPrefix(a, b) == Len(a) <= Len(b) /\ a = SubSeq(b, 1, Len(a))

\* C22 as stated: the push sends the latest long-term memory, if there is one, as
\* a user turn with its text followed by an assistant acknowledgement, reports
\* success only if both were sent, and sends nothing without a long-term memory
C22_Original ==
    [][Pushes =>
           IF LongTerm(memories) = {} THEN TurnsSent = << >>
           ELSE /\ \E m \in LatestOf(LongTerm(memories)) :
                       TurnsSent = << UserTurn(m.content), AssistantTurn >>
                /\ success' = << TRUE >> => Len(TurnsSent) = 2]_vars

\* C22: with memory generation on the client and an agent id configured, the push
\* reads the latest memory of any type and, if it has text, sends a user turn with
\* that text and then an assistant acknowledgement, as far as the connection
\* carries them; it reports success only if both were sent; otherwise, and when
\* there is no memory with text, nothing is sent
C22_PushSendsUserThenAck ==
    [][Pushes =>
           \E m \in (IF memories = {} THEN {NoMemory} ELSE LatestOf(memories)) :
               IF memgen /\ agent_id # NoText /\ m.content # NoText
               THEN /\ IsPrefix(TurnsSent, << UserTurn(m.content), AssistantTurn >>)
                    /\ success' \in {<< TRUE >>, << FALSE >>}
                    /\ success' = << TRUE >> =>
                           TurnsSent = << UserTurn(m.content), AssistantTurn >>
               ELSE /\ TurnsSent = << >>
                    /\ success' = NotSent]_vars

\* the latest memory, a short-term one, was sent whole and success was reported
C22_Witness ==
    /\ success = << TRUE >>
    /\ \E m \in LatestOf(memories) :
           /\ m.type = "short_term"
           /\ \A q \in memories \ {m} : q.datetime < m.datetime
           /\ remote = << << UserTurn(m.content), AssistantTurn >> >>

-----------------------------------------------------------------------------
(* The socket client *)

\* C23: at no time are two reconnect threads of one client alive, however
\* connect, send_message, the receive threads and disconnect interleave
C23_OneReconnectLoop == Cardinality(Loops) <= 1

\* a receive thread on its way out is about to call _start_reconnect_thread while
\* the reconnect thread started for a failed connect is alive
C23_Witness ==
    /\ Loops # {}
    /\ \E t \in DOMAIN procs : procs[t].kind = "receive" /\ procs[t].pc = "start_reconnect"

\* thread t calls send_message in this step
SendStep(t) ==
    /\ procs[t].kind = "app" /\ procs[t].pc = "idle"
    /\ Len(procs') = Len(procs)
    /\ \A u \in DOMAIN procs : u # t => procs'[u] = procs[u]
    /\ procs'[t].call = "send_message"
    /\ procs'[t].pc \in {"idle", "blocked", "start_reconnect"}
    /\ procs'[t] # procs[t] \/ (client.socket = "dead" /\ client'.socket = "none")
    /\ transport' = transport

\* C24 as stated: send_message called with no socket or a broken one while the
\* client is running returns False, and afterwards is_reconnecting is set and a
\* reconnect thread is alive
C24_SendFailureReturnsFalse ==
    [][\A t \in DOMAIN procs :
           (SendStep(t) /\ client.socket \in {"none", "dead"} /\ client.running) =>
               /\ procs'[t].pc = "idle"
               /\ procs'[t].ret = "False"
               /\ client'.is_reconnecting
               /\ \E l \in DOMAIN procs' :
                      procs'[l].kind = "reconnect" /\ procs'[l].pc # "dead"]_vars

\* the caller is blocked in send_message on the lock it holds
C24_Witness == procs # << >> /\ procs[1].pc = "blocked" /\ client._lock = 1

Connected == client.socket = "live"

\* the caller's connect(auto_reconnect=True) or send_message has failed
Failed ==
    /\ procs # << >>
    /\ \/ procs[1].call = "connect" /\ procs[1].auto /\ procs[1].ret = "False"
                                    /\ procs[1].pc \in {"idle", "start_reconnect"}
       \/ procs[1].call = "send_message" /\ (procs[1].ret = "False" \/ procs[1].pc = "blocked")

\* the service accepts connections, the client has not been stopped, and the
\* model has room for the threads a connection needs
Available == transport = "up" /\ client.running /\ Len(procs) < MaxThreads

\* the caller is blocked in send_message while the service is up and a receive
\* thread waits for the lock to start the reconnect thread
C25_Witness ==
    /\ procs # << >> /\ procs[1].pc = "blocked"
    /\ transport = "up"
    /\ \E t \in DOMAIN procs : procs[t].kind = "receive" /\ procs[t].pc = "start_reconnect"

\* C25 as stated: after a failed connect(auto_reconnect=True) or failed sends, and
\* once the service stays available, the client gets connected; a failed connect
\* starts the reconnect thread only with auto_reconnect
C25_ReconnectsWhenAvailable ==
    /\ [](Failed /\ []Available => <>Connected)
    /\ [](procs # << >> /\ procs[1].pc = "start_reconnect" => procs[1].auto)

-----------------------------------------------------------------------------
(* stop() *)

\* stop() is between its first step and its return
Stopping == stopping.pc \notin {"idle", "returned"}

-----------------------------------------------------------------------------
(* start() *)

\* the events of start attempt n the message handler was given
EventsOf(n) == SelectSeq(health, LAMBDA e : e.attempt = n)

\* the startup of attempt n has failed and both the server thread and start()
\* are through with it
StartupFailed(n) ==
    /\ servers[n].thread = "dead"
    /\ servers[n].cause # NoError
    /\ Len(starting.ret) >= n

\* C27 as stated: with a message handler registered, a failed startup is
\* surfaced exactly once per start() attempt, as a health.status event, and
\* start() returns False and leaves the client not running
C27_StartupFailureSurfacedOnce ==
    \A n \in DOMAIN servers :
        StartupFailed(n) /\ Registered("message") =>
            /\ Len(EventsOf(n)) = 1
            /\ \A i \in DOMAIN health : health[i].type = "health.status"
            /\ ~starting.ret[n]
            /\ (n = Len(starting.ret) /\ starting.pc = "idle" => ~running)

\* the bind failed with the port in use, start() has returned False and the
\* handler has the one event the server sent
C27_Witness ==
    /\ servers # << >>
    /\ StartupFailed(1)
    /\ servers[1].cause = "in_use"
    /\ EventsOf(1) = << HealthStatus(1, "server") >>
    /\ starting.ret = << FALSE >>
    /\ ~running

-----------------------------------------------------------------------------
(* Message ids *)

\* the id issued last, 0 (the initial _last_message_id) before the first
LastIssued == IF issued = << >> THEN 0 ELSE issued[Len(issued)]

\* C28: the ids one client issues increase in issue order, hence are pairwise
\* distinct, whatever the wall clock does; each is the wall-clock second when
\* that exceeds the id issued last, and that id plus one otherwise
C28_IdsIncrease ==
    /\ [](\A i, j \in DOMAIN issued : i < j => issued[i] < issued[j])
    /\ [][issued' # issued =>
             /\ Len(issued') = Len(issued) + 1
             /\ LastIssued' = IF now > LastIssued THEN now ELSE LastIssued + 1]_vars

\* ids were issued past the last second the clock can show: the clock stood or
\* went back between calls
C28_Witness ==
    /\ Len(issued) >= 3
    /\ LastIssued > MaxSecond
    /\ now < issued[1]

-----------------------------------------------------------------------------
(* The wire *)

\* the unsigned number four bytes spell, most significant first
BigEndian(b) == ((b[1] * 256 + b[2]) * 256 + b[3]) * 256 + b[4]

\* the bytes of the first n messages written
RECURSIVE Written(_)
Written(n) == IF n = 0 THEN << >> ELSE Written(n - 1) \o Frame(framed[n])

\* how many of the frames written lie wholly within the first n bytes
Complete(n) == Cardinality({i \in DOMAIN framed : Len(Written(i)) <= n})

\* C29: every frame send_message writes is a 4-byte big-endian length followed by
\* exactly that many bytes, the UTF-8 JSON of the message; the receiver,
\* whatever the sizes of its reads, has delivered exactly the messages whose
\* frames lie wholly within the bytes it has read, in order and unchanged, so a
\* frame the stream ends in delivers nothing
C29_FramingRoundTrips ==
    /\ [][framed' # framed =>
             LET frame == SubSeq(wire'.data, Len(wire.data) + 1, Len(wire'.data))
                 message == framed'[Len(framed')]
             IN  /\ Len(frame) >= 4
                 /\ \A i \in 1..4 : frame[i] \in 0..255
                 /\ BigEndian(frame) = Len(frame) - 4
                 /\ SubSeq(frame, 5, Len(frame)) = encode(dumps(message))
                 /\ loads(dumps(message)) = message]_vars
    /\ [](delivered = SubSeq(framed, 1, Complete(rx.taken)))
    /\ [](rx.phase = "ended" => wire.closed /\ wire.data = << >>)

\* the stream ended inside the second frame, after the first was read in more
\* than one piece: the first message was delivered and nothing else
C29_Witness ==
    /\ rx.phase = "ended"
    /\ Len(framed) = 2
    /\ delivered = << framed[1] >>
    /\ framed[1].func = << "U+00E9" >>
    /\ rx.taken > Len(Written(1)) + 4
    /\ rx.taken < Len(Written(2))

-----------------------------------------------------------------------------
(* send_message *)

\* send_message has returned True for a dict that lacks the name field, and the
\* dict has gone out to a connected client
C30_Witness ==
    /\ answer = "True"
    /\ broadcast # << >>
    /\ broadcast[Len(broadcast)].message = Argument("dict", Absent)

\* C30 as stated: send_message returns False for an argument that is not a dict
\* and for a dict without the name field, and broadcasts nothing then
C30_InvalidMessageReturnsFalse ==
    [][\A message \in Arguments, reached \in 0..MaxConnections :
           SendMessage(message, reached) /\ ~RequiresName(message) =>
               answer' = "False" /\ broadcast' = broadcast]_vars

-----------------------------------------------------------------------------
(* The socket client: receive loops *)

\* a reconnect thread is in its loop
Reconnecting == \E t \in Loops : procs[t].pc # "leaving"

\* receive thread t ends in this step
ReceiveEnds(t) ==
    /\ procs[t].kind = "receive"
    /\ procs[t].pc # "dead"
    /\ procs'[t].pc = "dead"

\* every thread has ended or is back with its caller
AtRest == \A t \in DOMAIN procs : procs[t].pc \in {"idle", "dead"}

\* a receive thread has ended
ReceiveEnded == \E t \in DOMAIN procs : procs[t].kind = "receive" /\ procs[t].pc = "dead"

\* a receive thread has found its connection broken and ended, the reconnect
\* thread that made the connection ended after it, and the client, still
\* running, has no socket and no thread to make one
C31_Witness ==
    /\ AtRest /\ ReceiveEnded
    /\ client.running /\ client.socket = "none" /\ ~client.is_reconnecting
    /\ transport = "up"
    /\ \E t \in DOMAIN procs : procs[t].kind = "reconnect"

\* C31 as stated: when a receive thread ends while the client is running, a
\* reconnect loop is running afterwards; the client never rests, after a receive
\* thread has ended, running with no socket and no reconnect loop
C31_ReceiveFailureReconnects ==
    /\ [][\A t \in DOMAIN procs :
             ReceiveEnds(t) /\ client.running /\ client'.running => Reconnecting']_vars
    /\ [](AtRest /\ ReceiveEnded /\ client.running => client.socket # "none")

\* receive thread t is in its loop
Receiving(t) == procs[t].kind = "receive" /\ procs[t].pc = "receive"

\* receive thread t was started for a socket that self.socket no longer holds
Stale(t) == procs[t].kind = "receive" /\ (client.socket = "none" \/ client.handle # t)

\* the receive thread of a replaced socket is still in its loop beside the
\* receive thread of the live one
C32_Witness ==
    /\ client.socket = "live"
    /\ \E s, t \in DOMAIN procs : s # t /\ Receiving(s) /\ Receiving(t) /\ Stale(s)

\* C32 as stated: every successful connect or reconnect starts one receive thread
\* for the new socket; the receive thread of a replaced socket is never in its
\* loop while a newer socket is live, and its exit leaves the newer socket alone
C32_OneReceiveLoopPerHandle ==
    /\ [][client'.handle # client.handle =>
             /\ Len(procs') = Len(procs) + 1
             /\ client'.handle = Len(procs')
             /\ procs'[Len(procs')].kind = "receive"
             /\ procs'[Len(procs')].pc = "receive"]_vars
    /\ [](\A t \in DOMAIN procs : Receiving(t) /\ client.socket = "live" => ~Stale(t))
    /\ [][\A t \in DOMAIN procs :
             receive_cleanup(t) /\ Stale(t) => client'.socket = client.socket]_vars

-----------------------------------------------------------------------------
(* The socket client: disconnect *)

\* disconnect() has returned and the caller has made no call since
DisconnectReturned == procs[1].call = "disconnect" /\ procs[1].pc = "idle"

\* no socket, and every receive and reconnect thread has ended
Disconnected ==
    /\ client.socket = "none"
    /\ \A t \in DOMAIN procs : procs[t].kind # "app" => procs[t].pc = "dead"

\* the model has no room for another thread
Full == Len(procs) = MaxThreads

\* what does hold of disconnect(): once it has set running to False the reconnect
\* thread begins no new attempt; an attempt that had passed its test of running
\* may still connect, once, and the thread then leaves its loop; eventually
\* there is no socket, no reconnect thread and no receive thread
DisconnectSettles ==
    /\ [][\A t \in DOMAIN procs :
             procs[t].pc # "attempt" /\ procs'[t].pc = "attempt" => client.running]_vars
    /\ [][\A t \in DOMAIN procs :
             ~client.running /\ reconnect_attempt(t) =>
                 procs'[t].pc = IF client'.socket = "live" THEN "leaving" ELSE "loop"]_vars
    /\ [][\A t \in DOMAIN procs :
             ~client.running /\ procs[t].pc = "loop" /\ procs'[t].pc # "loop" =>
                 procs'[t].pc = "dead"]_vars

\* C33: after disconnect() has returned no connection attempt of the reconnect
\* loop takes effect, and eventually there is no socket, no reconnect thread
\* and no receive thread (or the model has no thread left to give)
C33_DisconnectEndsDisconnected ==
    /\ [][DisconnectReturned /\ (\E t \in DOMAIN procs : reconnect_attempt(t)) =>
             client'.socket # "live"]_vars
    /\ [](DisconnectReturned => <>(Disconnected \/ Full))

\* disconnect() has returned and a reconnect attempt that was under way has made
\* a connection after it
C33_Witness ==
    /\ DisconnectReturned
    /\ client.socket = "live"
    /\ \E t \in DOMAIN procs : procs[t].kind = "reconnect" /\ procs[t].pc = "leaving"

-----------------------------------------------------------------------------
(* The store connection shared by the threads of the client.  storage.py:157 *)
(* opens one connection with check_same_thread=False; handle_message (the   *)
(* server's thread) and the background memory thread both use it, and no    *)
(* method of the store takes a lock.  A transaction belongs to the          *)
(* connection: a statement run by any thread sees the rows as the           *)
(* connection has them, and a commit by any thread commits all of them.     *)

NoUpdate == [pc |-> "idle", s |-> 0, message_id |-> 0, message |-> NoMessage, matched |-> 0]

\* storage.py:355-368: update_message runs its UPDATE, which opens a transaction
update_message_updates(s, message_id, m) ==
    /\ updating.pc = "idle"
    /\ _get_connection(s)
    /\ messages' = {IF r.id = message_id THEN [m EXCEPT !.id = message_id] ELSE r :
                        r \in messages}
    /\ updating' = [pc |-> "updated", s |-> s, message_id |-> message_id, message |-> m,
                    matched |-> Cardinality({r \in messages : r.id = message_id})]
    /\ UNCHANGED << committed, conn, schema, db_version, memories, memory_seq, reply >>
    /\ UNCHANGED client_vars
    /\ UNCHANGED << start_vars, stopping, send_vars, socket_vars, wire_vars, agent_id,
                    success >>

\* storage.py:377-412: for a user message the SELECT of the previous row and, when
\* it is an incremental version, its DELETE; then the commit and the result
update_message_commits ==
    /\ updating.pc = "updated"
    /\ LET m == updating.message
           prev == PreviousRow(messages, updating.message_id)
           deletes == m.role = "user" /\ IsIncremental(prev, m)
       IN  /\ messages' = IF deletes THEN messages \ {prev} ELSE messages
           /\ reply' = Reply("update_message", updating.s,
                             [message_id |-> updating.message_id, message |-> m],
                             IF m.role = "user" THEN deletes ELSE updating.matched > 0)
    /\ committed' = messages'
    /\ updating' = NoUpdate
    /\ UNCHANGED << conn, schema, db_version, memories, memory_seq >>
    /\ UNCHANGED client_vars
    /\ UNCHANGED << start_vars, stopping, send_vars, socket_vars, wire_vars, agent_id,
                    success >>

\* ticos_client.py:683 and storage.py:429-454: the memory thread reads the latest
\* messages; leaving `with conn` commits the connection's transaction
worker_get_messages(s) ==
    /\ _get_connection(s)
    /\ \E page \in get_messages(messages, 0, context_rounds, TRUE) :
           reply' = Reply("get_messages", s,
                          [offset |-> 0, limit |-> context_rounds, desc |-> TRUE], page)
    /\ committed' = messages
    /\ UNCHANGED << messages, updating, conn, schema, db_version, memories, memory_seq >>
    /\ UNCHANGED client_vars
    /\ UNCHANGED << start_vars, stopping, send_vars, socket_vars, wire_vars, agent_id,
                    success >>

\* ticos_client.py:703 and storage.py:480-496: the memory thread saves a memory
\* and commits
worker_save_memory(s, mem) ==
    /\ _get_connection(s)
    /\ memory_seq < MaxMemories
    /\ memories' = save_memory(memories, memory_seq, mem).rows
    /\ memory_seq' = save_memory(memories, memory_seq, mem).seq
    /\ reply' = Reply("save_memory", s, [memory |-> mem], TRUE)
    /\ committed' = messages
    /\ UNCHANGED << messages, updating, conn, schema, db_version >>
    /\ UNCHANGED client_vars
    /\ UNCHANGED << start_vars, stopping, send_vars, socket_vars, wire_vars, agent_id,
                    success >>

\* the tables save_message can have left: rows with distinct ids
Tables ==
    {t \in SUBSET StoreMessages : \A a, b \in t : a.id = b.id => a = b}

InitShared ==
    /\ now = 1
    /\ storage = "on"
    /\ messages \in Tables
    /\ cache = EmptyCache
    /\ last_message_id = 0
    /\ message_counter = 0
    /\ memgen = TRUE
    /\ background_tasks = << >>
    /\ handler = [h \in HandlerNames |-> "none"]
    /\ last = Idle
    /\ turn = NoTurn
    /\ turns = << >>
    /\ conn = {ClientStore}
    /\ schema = "latest"
    /\ db_version = << CURRENT_DB_VERSION >>
    /\ memories = {}
    /\ memory_seq = 0
    /\ reply = NoReply
    /\ running = TRUE
    /\ threads = << >>
    /\ session_config = << >>
    /\ remote = << >>
    /\ summary = NotAsked
    /\ caller = NoCall
    /\ counted = 0
    /\ launched = 0
    /\ ServerApart /\ StopApart /\ SendApart /\ SocketApart /\ WireApart /\ PushApart
    /\ updating = NoUpdate
    /\ committed = messages

NextShared ==
    \/ \E m \in StoreMessages : update_message_updates(ClientStore, m.id, m)
    \/ update_message_commits
    \/ worker_get_messages(ClientStore)
    \/ worker_save_memory(ClientStore, Memory("long_term", <<"s">>, 1))

SpecShared == InitShared /\ [][NextShared]_vars

\* update_message has applied its UPDATE and has still to delete the previous
\* row, a partial transcript of the one it wrote
HalfDone ==
    /\ updating.pc = "updated"
    /\ updating.message.role = "user"
    /\ IsIncremental(PreviousRow(messages, updating.message_id), updating.message)

\* C35: the UPDATE and the DELETE of update_message are one unit for every other
\* user of the connection: between the two no other store operation returns a
\* result read from the table, and nothing is committed but by update_message
C35_UpdateDeleteAtomic ==
    /\ [][HalfDone /\ reply' # reply => reply'.op = "update_message"]_vars
    /\ [][HalfDone /\ committed' # committed => reply'.op = "update_message"]_vars

\* the memory thread's get_messages has returned, and committed, the updated
\* message together with the partial one that update_message is about to delete
C35_Witness ==
    /\ HalfDone
    /\ reply.op = "get_messages"
    /\ committed = messages
    /\ \E i \in 1..Len(reply.ret) :
           /\ reply.ret[i].id = updating.message_id
           /\ reply.ret[i].content = updating.message.content
    /\ \E i \in 1..Len(reply.ret) :
           reply.ret[i] = PreviousRow(messages, updating.message_id)

-----------------------------------------------------------------------------
(* Two WebSocket clients connected at once.  server.py:92-113 runs one      *)
(* websocket_endpoint loop per connection; each hands what it receives to   *)
(* _handle_websocket_message, which passes the message, without the         *)
(* connection, to the one TicosClient and its one _audio_transcript_cache.  *)

Sockets == {"ws1", "ws2"}

\* the item whose transcript a connection's session is sending
SessionItem(c) == IF c = "ws1" THEN "A" ELSE "B"

SessionEnvelopes(c) ==
    {Delta(SessionItem(c), d) : d \in Deltas} \cup {Done(NoItem), Plain("response.created")}

\* server.py:98-113, 248-277: the endpoint of connection c receives e
websocket_endpoint(c, e) ==
    IF _should_process_message(e)
    THEN Handle(e, c)
    ELSE /\ last' = [Idle EXCEPT !.via = c, !.env = e]
         /\ UNCHANGED << now, storage, messages, cache, last_message_id, message_counter,
                         memgen, background_tasks, handler, turn, turns >>
         /\ UNCHANGED store_vars
         /\ UNCHANGED ext_vars
         /\ UNCHANGED memory_vars

NextSessions ==
    \/ \E c \in Sockets : \E e \in SessionEnvelopes(c) : websocket_endpoint(c, e)

SpecSessions == Init /\ [][NextSessions]_vars

\* the slot holds the draft of connection c's item, built by c's deltas
DraftOf(c) == cache.item_id = SessionItem(c) /\ cache.message # NoMessage

\* C36: the pending-reassembly slot is per session: while it holds the draft of
\* one connection, nothing that arrives on the other connection flushes the
\* draft to the store, replaces it or extends it
C36_SlotPerSession ==
    [][\A c, d \in Sockets :
          c # d /\ DraftOf(c) /\ last'.via = d =>
              cache' = cache /\ messages' = messages]_vars

\* a delta of the second connection has put the first connection's draft into
\* the store, part-built, and taken the slot
C36_Witness ==
    /\ last.via = "ws2"
    /\ last.env.type = "response.audio_transcript.delta"
    /\ DraftOf("ws2")
    /\ \E r \in messages : r.item_id = SessionItem("ws1")
    /\ turns # << >>

-----------------------------------------------------------------------------
(* broadcast_message (under SpecSend) *)

\* the connections registered with the server the client holds
Clients == IF server = 0 THEN 0 ELSE servers[server].websocket_connections

\* send_message hands the message to broadcast_message, which has connections
\* to send to
Broadcasts(message, reached) ==
    SendMessage(message, reached) /\ Accepts(message) /\ Clients > 0

\* C37: broadcast_message always completes: every call returns, also when the
\* send to a connection fails, and the connection whose send failed is then no
\* longer registered while the others are
C37_BroadcastCompletes ==
    /\ [][\A message \in Arguments, reached \in 0..MaxConnections :
             Broadcasts(message, reached) =>
                 /\ answer' # "blocked"
                 /\ reached < Clients => Clients' = Clients - 1]_vars
    /\ [](answer # "blocked")

\* the message went to the first of two connections, the send to the second
\* failed, and the call has not returned; both connections are still registered
C37_Witness ==
    /\ answer = "blocked"
    /\ Clients = 2
    /\ broadcast # << >>
    /\ broadcast[Len(broadcast)].to = 1

-----------------------------------------------------------------------------
(* update_message: ids not in the table, and the value returned (under      *)
(* SpecMessages)                                                            *)

\* update_message returns in this step, called on an open store
Updates == reply'.op = "update_message" /\ _get_connection(reply'.s)

\* C38: update_message with an id that is not in the table leaves the table as
\* it was, whatever the role and the content of the message given
C38_UnknownIdChangesNothing ==
    [][Updates /\ reply'.arg.message_id \notin Ids(messages) => messages' = messages]_vars

\* update_message was called with an id the table did not have, and has
\* deleted the row with the next lower id
C38_Witness ==
    /\ reply.op = "update_message"
    /\ reply.arg.message_id \notin Ids(messages)
    /\ reply.ret = TRUE
    /\ messages # {}

-----------------------------------------------------------------------------
(* Several user items pending.  The remote side creates each user item      *)
(* once (conversation.item.created with input audio) and later sends its    *)
(* transcription; the transcriptions of different items may arrive in any   *)
(* order, with assistant turns in between.                                  *)

UserItems == {"U", "V"}

CompletedType == "conversation.item.input_audio_transcription.completed"

NextPending ==
    \/ \E x \in UserItems :
           /\ \A r \in messages : r.item_id # x
           /\ _handle_websocket_message(ItemCreated(x, "message", "user", TRUE))
    \/ \E x \in UserItems, t \in Transcripts : _handle_websocket_message(Completed(x, t))
    \/ \E e \in {Delta("A", <<"a">>), Done(NoItem)} : _handle_websocket_message(e)

SpecPending == Init /\ [][NextPending]_vars

\* the placeholders stored for user items whose transcription has not arrived
Placeholders == {r \in messages : r.role = "user" /\ r.content = NoText}

\* C40: the placeholder of a user item stays in the store until that item's
\* own transcription arrives, in whatever order the transcriptions of the
\* pending items come, so every transcription finds its placeholder
C40_PlaceholderAwaitsCompletion ==
    /\ [][\A r \in Placeholders : r.item_id # last'.env.item_id => r \in messages']_vars
    /\ [][\A x \in UserItems :
             /\ last'.env.type = CompletedType
             /\ last'.env.item_id = x
             /\ \E r \in messages : r.item_id = x
             => \E r \in messages' : r.item_id = x /\ r.content = last'.env.text]_vars

\* the transcription of V, the later of two pending items, has arrived first
\* and the placeholder of U is gone from the store
C40_Witness ==
    /\ last.env = Completed("V", <<"a">>)
    /\ last_message_id = 2
    /\ messages = {r \in messages : r.item_id = "V" /\ r.id = 2 /\ r.content = <<"a">>}
    /\ messages # {}

====
